---- MODULE Spec2Model ----
(***************************************************************************)
(* Underwriting aggregation-and-decision engine of full-revenue-backend.   *)
(*                                                                         *)
(* The module models runUnderwriting (services/underwriting.service.ts):   *)
(* seven adapter calls awaited one after another, each raced against a     *)
(* timer by withTimeout (utils/timeout.ts), followed by the consolidation  *)
(* into data_sources, total revenue, credit offer and status.              *)
(*                                                                         *)
(* Numbers.  JavaScript numbers are modelled exactly: a product of         *)
(* decimal factors is kept as a rational (numerator and denominators) and  *)
(* Math.round is applied to that rational; the intermediate products do    *)
(* not fit TLC's 32-bit integers, so they are held as little-endian limb   *)
(* sequences (the Big operators).  An optional value is the empty sequence  *)
(* when undefined and <<v>> otherwise.                                     *)
(***************************************************************************)
EXTENDS Integers, Sequences, FiniteSets, TLC

(***************************************************************************)
(* Exact arithmetic on naturals too large for one machine integer.         *)
(***************************************************************************)
LimbBase == 10 * 1000

\* Number of limbs of a big natural: values below LimbBase^NLimbs.
NLimbs == 8

Limbs == 1 .. NLimbs

\* The element of a one-element set.  In Only({F(v) : v \in {e}}) the
\* expression e is evaluated once, before F is applied to its value.
Only(S) == CHOOSE r \in S : TRUE

\* The natural n (0 <= n < 2^31) as limbs.
BigFromNat(n) ==
  Only({
    [i \in Limbs |->
       IF i = 1 THEN v % LimbBase
       ELSE IF i = 2 THEN (v \div LimbBase) % LimbBase
       ELSE IF i = 3 THEN (v \div LimbBase) \div LimbBase
       ELSE 0] : v \in {n}})

RECURSIVE BigMulCarry(_, _, _, _)
BigMulCarry(x, k, i, carry) ==
  IF i > NLimbs THEN <<>>
  ELSE Only({
         <<t % LimbBase>> \o BigMulCarry(x, k, i + 1, t \div LimbBase) : t \in {x[i] * k + carry}})

\* x * k for a small natural k (k <= 200000 keeps every step in 32 bits).
BigMul(x, k) == Only({ BigMulCarry(a[1], a[2], 1, 0) : a \in {<<x, k>>}})

RECURSIVE BigAddCarry(_, _, _, _)
BigAddCarry(x, y, i, carry) ==
  IF i > NLimbs THEN <<>>
  ELSE Only({
         <<t % LimbBase>> \o BigAddCarry(x, y, i + 1, t \div LimbBase) : t \in {x[i] + y[i] + carry}})

BigAdd(x, y) == Only({ BigAddCarry(a[1], a[2], 1, 0) : a \in {<<x, y>>}})

\* Long division of x by a small natural d, from the top limb down:
\* the result is [q |-> quotient limbs, r |-> remainder].
RECURSIVE BigDivFrom(_, _, _, _)
BigDivFrom(x, d, i, rem) ==
  IF i = 0 THEN [q |-> <<>>, r |-> rem]
  ELSE Only({
         Only({
           [q |-> rest.q \o <<t \div d>>, r |-> rest.r] : rest \in {BigDivFrom(x, d, i - 1, t % d)}}) : t \in {rem * LimbBase + x[i]}})

BigDiv(x, d) == Only({ BigDivFrom(a[1], a[2], NLimbs, 0) : a \in {<<x, d>>}})

\* The machine integer held by x (x < 2^31).
BigToNat(x) ==
  Only({ v[1] + LimbBase * v[2] + LimbBase * LimbBase * v[3] : v \in {x}})

\* The factors ks with neighbours multiplied together where the product is
\* still a small factor: fewer, larger steps with the same product.
RECURSIVE Merged(_)
Merged(ks) ==
  IF Len(ks) < 2 THEN ks
  ELSE IF ks[1] * ks[2] <= 200 * 1000
       THEN <<ks[1] * ks[2]>> \o Merged(Tail(Tail(ks)))
       ELSE <<ks[1]>> \o Merged(Tail(ks))

\* x * k1 * ... * kn; each partial product is computed before the next.
RECURSIVE SeqProductBig(_, _)
SeqProductBig(x, ks) ==
  IF ks = <<>> THEN x
  ELSE Only({ SeqProductBig(y, Tail(ks)) : y \in {BigMul(x, Head(ks))}})

\* floor(x / (d1 * ... * dn)) by successive floor divisions (ds not empty):
\* the quotient q, the last divisor d and its remainder r, and whether the
\* remainders before it were all zero.
RECURSIVE SeqDivideFrom(_, _, _)
SeqDivideFrom(x, ds, zero) ==
  Only({
    IF Len(ds) = 1
    THEN [q |-> one.q, r |-> one.r, d |-> Head(ds), lowerZero |-> zero]
    ELSE SeqDivideFrom(one.q, Tail(ds), zero /\ one.r = 0) : one \in {BigDiv(x, Head(ds))}})

SeqDivideBig(x, ds) == SeqDivideFrom(x, ds, TRUE)

Abs(n) == IF n < 0 THEN -n ELSE n

\* Math.round of the rational (+/-) N / (d1 * ... * dn), N a big natural:
\* floor(x + 1/2), i.e. ties go towards +Infinity.  With 2N / (d1 ... dn 2)
\* the last divisor is even, so the fraction of the quotient is at least
\* 1/2 exactly when the last remainder is at least half the last divisor.
RoundBig(negative, N, dens) ==
  Only({
    Only({
      LET half == 2 * h.r >= h.d
          tie  == 2 * h.r = h.d /\ h.lowerZero
      IN  IF ~negative THEN (IF half THEN q + 1 ELSE q)
          ELSE IF half /\ ~tie THEN -(q + 1) ELSE -q : q \in {BigToNat(h.q)}}) : h \in {SeqDivideBig(BigMul(N, 2), Merged(dens \o <<2>>))}})

\* Math.round(n * nums / dens) for an integer n and sequences of small
\* positive factors.
RoundRatio(n, nums, dens) ==
  Only({
    RoundBig(a[1] < 0, SeqProductBig(BigFromNat(Abs(a[1])), Merged(a[2])), a[3]) : a \in {<<n, nums, dens>>}})

(***************************************************************************)
(* Optional values: <<>> is undefined, <<v>> is the value v.               *)
(***************************************************************************)
Undefined == <<>>

Some(v) == <<v>>

IsDefined(o) == o # <<>>

\* o ?? dflt
OrElse(o, dflt) == IF o = <<>> THEN dflt ELSE o[1]

(***************************************************************************)
(* computeTotalRevenue: the factors, each a pair <<numerator, denominator>>*)
(***************************************************************************)
\* Variant: the listings boost reaches 10% at a score of 100.
PlacesBoostTenth(placesScore) == <<1000 + placesScore, 1000>>

\* 1 + (placesScore / 100) * 0.20
PlacesBoost(placesScore) == <<1000 + 2 * placesScore, 1000>>

\* In hundredths: 0.08 / 0.05 / 0.02, 0 when undefined.
FacebookBoost(facebookFans) ==
  IF facebookFans = Undefined THEN 0
  ELSE IF facebookFans[1] >= 5000 THEN 8
  ELSE IF facebookFans[1] >= 1000 THEN 5
  ELSE 2

\* In hundredths: 0.07 / 0.04 / 0.01, 0 when undefined.
InstagramBoost(instagramFollowers) ==
  IF instagramFollowers = Undefined THEN 0
  ELSE IF instagramFollowers[1] >= 5000 THEN 7
  ELSE IF instagramFollowers[1] >= 1000 THEN 4
  ELSE 1

\* 1 + facebookBoost + instagramBoost
SocialBoost(facebookFans, instagramFollowers) ==
  <<100 + FacebookBoost(facebookFans) + InstagramBoost(instagramFollowers), 100>>

IdentityBoost(twilioIdentityMatch) ==
  IF twilioIdentityMatch = Some(TRUE) THEN <<105, 100>> ELSE <<100, 100>>

WhatsappBoost(twilioWhatsapp) ==
  IF twilioWhatsapp = Some(TRUE) THEN <<103, 100>> ELSE <<100, 100>>

SimSwapPenalty(twilioSimSwap) ==
  IF twilioSimSwap = Some(TRUE) THEN <<90, 100>> ELSE <<100, 100>>

\* Variant: a missing bureau score counts as a low score.
BureauMultiplierStrict(bureauScore) ==
  IF bureauScore # Undefined /\ bureauScore[1] > 700 THEN <<110, 100>>
  ELSE IF bureauScore # Undefined /\ bureauScore[1] > 600 THEN <<100, 100>>
  ELSE <<90, 100>>

BureauMultiplier(bureauScore) ==
  IF bureauScore = Undefined THEN <<100, 100>>
  ELSE IF bureauScore[1] > 700 THEN <<110, 100>>
  ELSE IF bureauScore[1] > 600 THEN <<100, 100>>
  ELSE <<90, 100>>

TenureMultiplier(tenureMonths) ==
  IF tenureMonths = Undefined THEN <<100, 100>>
  ELSE IF tenureMonths[1] > 24 THEN <<105, 100>>
  ELSE IF tenureMonths[1] < 6 THEN <<95, 100>>
  ELSE <<100, 100>>

ComplianceMultiplier(taxCompliance) ==
  IF taxCompliance THEN <<100, 100>> ELSE <<80, 100>>

\* The eight factors in the order of the product.
RevenueFactors(placesScore, bureauScore, tenureMonths, taxCompliance, facebookFans, instagramFollowers, twilioIdentityMatch, twilioWhatsapp, twilioSimSwap) ==
  << PlacesBoost(placesScore),
     SocialBoost(facebookFans, instagramFollowers),
     IdentityBoost(twilioIdentityMatch),
     WhatsappBoost(twilioWhatsapp),
     SimSwapPenalty(twilioSimSwap),
     BureauMultiplier(bureauScore),
     TenureMultiplier(tenureMonths),
     ComplianceMultiplier(taxCompliance) >>

RECURSIVE Numerators(_)
Numerators(fs) ==
  IF fs = <<>> THEN <<>> ELSE <<Head(fs)[1]>> \o Numerators(Tail(fs))

RECURSIVE Denominators(_)
Denominators(fs) ==
  IF fs = <<>> THEN <<>> ELSE <<Head(fs)[2]>> \o Denominators(Tail(fs))

\* syntageMonthly is the rational [n |-> annual_revenue, d |-> 12].
computeTotalRevenue(syntageMonthly, placesScore, bureauScore, tenureMonths, taxCompliance, facebookFans, instagramFollowers, twilioIdentityMatch, twilioWhatsapp, twilioSimSwap) ==
  IF syntageMonthly.n = 0 THEN 0
  ELSE LET fs == RevenueFactors(placesScore, bureauScore, tenureMonths,
                                taxCompliance, facebookFans, instagramFollowers,
                                twilioIdentityMatch, twilioWhatsapp, twilioSimSwap)
       IN  RoundRatio(syntageMonthly.n,
                      Numerators(fs),
                      <<syntageMonthly.d>> \o Denominators(fs))

(***************************************************************************)
(* computeCreditOffer                                                      *)
(***************************************************************************)
\* hasFiscal ? 2.0 : hasSocial ? 1.4 : 1.2, in tenths.
TierMultiplier(hasSocial, hasFiscal) ==
  IF hasFiscal THEN 20 ELSE IF hasSocial THEN 14 ELSE 12

\* Variant: Math.floor in place of Math.round.
ApprovedAmountFloor(baseRevenue, multiplier) ==
  ((baseRevenue * multiplier) \div (10 * 1000)) * 1000

\* Math.round((baseRevenue * multiplier) / 1000) * 1000
ApprovedAmount(baseRevenue, multiplier) ==
  RoundRatio(baseRevenue, <<multiplier>>, <<10, 1000>>) * 1000

\* Monthly rate in thousandths: 0.030 / 0.034 / 0.038.
InterestRate(bureauScore) ==
  IF bureauScore # Undefined /\ bureauScore[1] > 700 THEN 30
  ELSE IF bureauScore # Undefined /\ bureauScore[1] > 600 THEN 34
  ELSE 38

\* rate / (1 - (1 + rate)^(-12)) scaled by 10^9 and rounded: the annuity
\* factor of the three rates, exact to nine decimals.
AnnuityFactor(rate) ==
  CASE rate = 30 -> 100462085
    [] rate = 34 -> 102875850
    [] rate = 38 -> 105319356

\* Math.round((approvedAmount * rate) / (1 - Math.pow(1 + rate, -installments)))
MonthlyPayment(approvedAmount, rate) ==
  Only({
    Only({
      RoundBig(a[1] < 0,
               BigAdd(BigMul(BigMul(A, a[2] \div LimbBase), LimbBase),
                      BigMul(A, a[2] % LimbBase)),
               <<1000, 1000, 1000>>) : A \in {BigFromNat(Abs(a[1]))}}) : a \in {<<approvedAmount, AnnuityFactor(rate)>>}})

\* Math.round(monthlyPayment * 0.20)
WithholdingAmount(monthlyPayment) == RoundRatio(monthlyPayment, <<20>>, <<100>>)

\* Variant: the direct debit truncated from its own share of the payment
\* instead of being the remainder.
DirectDebitTruncated(monthlyPayment, withholdingAmount) ==
  (monthlyPayment * 80) \div 100

\* monthlyPayment - withholdingAmount
DirectDebitAmount(monthlyPayment, withholdingAmount) ==
  monthlyPayment - withholdingAmount

computeCreditOffer(baseRevenue, bureauScore, dataSourceCount, hasSocial, hasFiscal) ==
  LET multiplier == TierMultiplier(hasSocial, hasFiscal)
      rate       == InterestRate(bureauScore)
  IN  Only({
        Only({
          Only({
            [ approved_amount       |-> approvedAmount,
              interest_rate_monthly |-> rate,
              installments          |-> 12,
              monthly_payment       |-> monthlyPayment,
              withholding_amount    |-> withholdingAmount,
              direct_debit_amount   |-> DirectDebitAmount(monthlyPayment, withholdingAmount),
              currency              |-> "MXN" ] : withholdingAmount \in {WithholdingAmount(monthlyPayment)}}) : monthlyPayment \in {MonthlyPayment(approvedAmount, rate)}}) : approvedAmount \in {ApprovedAmount(baseRevenue, multiplier)}})

(***************************************************************************)
(* Decision status                                                         *)
(***************************************************************************)
DecisionStatus(totalRevenue, threshold) ==
  IF totalRevenue >= threshold THEN "APPROVED"
  ELSE IF totalRevenue > 0 THEN "MANUAL_REVIEW"
  ELSE "REJECTED"

(***************************************************************************)
(* The seven sources, in the order runUnderwriting awaits them.            *)
(***************************************************************************)
Sources ==
  <<"syntage", "google_places", "facebook", "instagram", "twilio", "bureau", "platform">>

SourceSet == {Sources[i] : i \in 1 .. Len(Sources)}

(***************************************************************************)
(* Adapter results, as typed in models/Application.ts and by the clients.  *)
(* fetched_at holds the timestamp (abstracted to one value); a field an    *)
(* object does not have is Undefined.                                      *)
(***************************************************************************)
Now == "now"

SyntageRevenueData(annual, compliance) ==
  [annual_revenue |-> annual, tax_compliance |-> compliance]

PlacesResult(connected, score) ==
  [connected |-> connected, signals_score |-> score, fetched_at |-> Now]

FacebookResult(connected, fans) ==
  [connected |-> connected, fan_count |-> fans, fetched_at |-> Now]

InstagramResult(connected, followers) ==
  [connected |-> connected, followers_count |-> followers, fetched_at |-> Now]

TwilioResult(connected, identity, whatsapp, simSwap) ==
  [connected |-> connected, identity_match |-> identity,
   whatsapp_business |-> whatsapp, sim_swap_detected |-> simSwap,
   fetched_at |-> Now]

BureauResult(score) == [bureau_score |-> score, fetched_at |-> Now]

PlatformResult(gmv, tenure, preApproved) ==
  [avg_platform_gmv_6m |-> gmv, tenure_months |-> tenure,
   pre_approved_amount |-> preApproved, fetched_at |-> Now]

\* { connected: false, fetched_at: new Date().toISOString() }
NotConnected(s) ==
  CASE s = "google_places" -> PlacesResult(FALSE, Undefined)
    [] s = "facebook"      -> FacebookResult(FALSE, Undefined)
    [] s = "instagram"     -> InstagramResult(FALSE, Undefined)
    [] s = "twilio"        -> TwilioResult(FALSE, Undefined, Undefined, Undefined)

\* The DEMO_STUB record of each client.
DemoStub(s) ==
  CASE s = "syntage"       -> SyntageRevenueData(720000, Some(TRUE))
    [] s = "google_places" -> PlacesResult(TRUE, Some(72))
    [] s = "facebook"      -> FacebookResult(TRUE, Some(3200))
    [] s = "instagram"     -> InstagramResult(TRUE, Some(1850))
    [] s = "twilio"        -> TwilioResult(TRUE, Some(TRUE), Some(TRUE), Some(FALSE))
    [] s = "bureau"        -> BureauResult(Some(720))
    [] s = "platform"      -> PlatformResult(Some(900000), Some(36), Some(50000))

\* Other results an adapter of that type can deliver: a connected record
\* with fields missing, and a record that is not connected (no usable data)
\* although it carries fields.
OtherResults(s) ==
  CASE s = "syntage"       -> { SyntageRevenueData(720000, Some(FALSE)),
                                SyntageRevenueData(0, Undefined) }
    [] s = "google_places" -> { PlacesResult(TRUE, Undefined),
                                PlacesResult(FALSE, Some(72)) }
    [] s = "facebook"      -> { FacebookResult(TRUE, Undefined),
                                FacebookResult(FALSE, Some(5000)) }
    [] s = "instagram"     -> { InstagramResult(TRUE, Undefined),
                                InstagramResult(FALSE, Some(5000)) }
    [] s = "twilio"        -> { TwilioResult(TRUE, Some(FALSE), Undefined, Some(TRUE)),
                                TwilioResult(FALSE, Some(TRUE), Some(TRUE), Some(TRUE)) }
    [] s = "bureau"        -> { BureauResult(Some(600)), BureauResult(Undefined) }
    [] s = "platform"      -> { PlatformResult(Undefined, Some(36), Some(80000)),
                                PlatformResult(Some(100000), Some(3), Undefined) }

(***************************************************************************)
(* What one adapter call does in a run: it returns a result or throws      *)
(* before its timer fires, or it is still pending when the timer fires and *)
(* then settles later ("slow") or not at all ("never").                    *)
(***************************************************************************)
Returns(r) == [kind |-> "returns", value |-> Some(r)]

Throws == [kind |-> "throws", value |-> Undefined]

Slow(r) == [kind |-> "slow", value |-> Some(r)]

Never == [kind |-> "never", value |-> Undefined]

Outcomes(s) ==
  {Returns(DemoStub(s)), Throws, Slow(DemoStub(s)), Never}
    \cup {Returns(r) : r \in OtherResults(s)}

\* Every adapter answers with its stub / no adapter ever answers.
AllUp == [s \in SourceSet |-> Returns(DemoStub(s))]

AllDown == [s \in SourceSet |-> Never]

\* The runs explored: every adapter behaves as the baseline does, except
\* possibly one, which does any of the things it can do.
Plans ==
  { [base EXCEPT ![d] = o] :
      <<base, d, o>> \in { t \in {AllUp, AllDown} \X SourceSet
                                 \X UNION {Outcomes(s) : s \in SourceSet} :
                             t[3] \in Outcomes(t[2]) } }

(***************************************************************************)
(* Configuration (config/env.ts) and the application snapshot.             *)
(***************************************************************************)
Envs ==
  [ DEMO_MODE          : {FALSE},
    APPROVAL_THRESHOLD : {0, 50000, 60000},
    SYNTAGE_TIMEOUT_MS : {3000} ]
  \cup
  [ DEMO_MODE          : {TRUE},
    APPROVAL_THRESHOLD : {50000},
    SYNTAGE_TIMEOUT_MS : {10000} ]

\* form_data as submitted: "" is a field left out or empty.
FormData(url, fbToken, igToken, phone) ==
  [ legal_name |-> "Ana Perez", tax_id |-> "XAXX010101000", phone |-> phone,
    google_business_url |-> url, facebook_access_token |-> fbToken,
    instagram_access_token |-> igToken ]

Forms ==
  { Undefined,
    Some(FormData("https://maps.google.com/?cid=1", "fb-token", "ig-token", "+525512345678")),
    Some(FormData("", "fb-token", "", "")),
    Some(FormData("", "", "ig-token", "")) }

Applications == [merchant_id : {"m1"}, form_data : Forms]

\* application.form_data?.field ?? ""
FormField(app, field) ==
  IF app.form_data = Undefined THEN "" ELSE app.form_data[1][field]

(***************************************************************************)
(* State                                                                   *)
(***************************************************************************)
VARIABLES
  env,          \* the parsed environment
  application,  \* the snapshot handed to runUnderwriting
  plan,         \* what each adapter call will do in this run
  pc,           \* "enter" | "await" | "consolidate" | "returned" | "thrown"
  step,         \* index in Sources of the section being executed
  loc,          \* the local variables of runUnderwriting
  calls,        \* the adapter calls made so far, in order
  callState,    \* per source, the adapter's promise: "none" | "pending" | "settled"
  timer,        \* per source: the setTimeout of withTimeout, [state, ms]
  race,         \* per source: the promise withTimeout returned
  lateValue,    \* per source: what an abandoned call delivered after its timeout
  decision,     \* the resolved UnderwritingDecision, Undefined before
  memStore,     \* application.service: the stored document of each application id
  peer,         \* a submission for another application, running at the same time
  prequal,      \* the call of runPrequalification, if one is made
  service       \* application.service: the submissions in flight and the last call settled

vars ==
  <<env, application, plan, pc, step, loc, calls, callState, timer, race, lateValue, decision,
    memStore, peer, prequal, service>>

\* No documents stored, no other submission, no prequalification call.
NoStore == [id \in {} |-> Undefined]

NoPeer == [pc |-> "none"]

NoPrequal == [pc |-> "none"]

NoService == [pc |-> "none"]

ZeroRevenue == [n |-> 0, d |-> 12]

\* The `let` declarations of runUnderwriting.
InitialLocals ==
  [ syntageResult         |-> Undefined,
    syntageMonthlyRevenue |-> ZeroRevenue,
    syntageAvailable      |-> FALSE,
    syntageCompliance     |-> TRUE,
    placesResult          |-> Undefined,
    placesScore           |-> 0,
    placesAvailable       |-> FALSE,
    facebookResult        |-> Undefined,
    facebookFanCount      |-> Undefined,
    facebookAvailable     |-> FALSE,
    instagramResult       |-> Undefined,
    instagramFollowers    |-> Undefined,
    instagramAvailable    |-> FALSE,
    twilioResult          |-> Undefined,
    twilioIdentityMatch   |-> Undefined,
    twilioWhatsapp        |-> Undefined,
    twilioSimSwap         |-> Undefined,
    twilioAvailable       |-> FALSE,
    bureauResult          |-> Undefined,
    bureauScore           |-> Undefined,
    bureauAvailable       |-> FALSE,
    platformResult        |-> Undefined,
    platformGmv           |-> Undefined,
    tenureMonths          |-> Undefined,
    platformAvailable     |-> FALSE ]

NoTimer == [state |-> "none", ms |-> 0]

Init ==
  /\ env \in Envs
  /\ application \in Applications
  /\ plan \in Plans
  /\ pc = "enter"
  /\ step = 1
  /\ loc = InitialLocals
  /\ calls = <<>>
  /\ callState = [s \in SourceSet |-> "none"]
  /\ timer = [s \in SourceSet |-> NoTimer]
  /\ race = [s \in SourceSet |-> "none"]
  /\ lateValue = [s \in SourceSet |-> Undefined]
  /\ decision = Undefined
  /\ service = NoService
  /\ memStore = NoStore /\ peer = NoPeer /\ prequal = NoPrequal

(***************************************************************************)
(* The sections of runUnderwriting                                         *)
(***************************************************************************)
\* Whether the section of source s calls its adapter (else it is skipped).
ShouldCall(s, app, e) ==
  CASE s = "google_places" -> FormField(app, "google_business_url") # ""
    [] s = "facebook"      -> FormField(app, "facebook_access_token") # "" \/ e.DEMO_MODE
    [] s = "instagram"     -> \/ FormField(app, "instagram_access_token") # ""
                              \/ FormField(app, "facebook_access_token") # ""
                              \/ e.DEMO_MODE
    [] OTHER               -> TRUE

\* The argument the adapter is called with.
CallArgument(s, app) ==
  CASE s = "syntage"       -> app.merchant_id
    [] s = "google_places" -> FormField(app, "google_business_url")
    [] s = "facebook"      -> FormField(app, "facebook_access_token")
    [] s = "instagram"     -> IF FormField(app, "instagram_access_token") # ""
                              THEN FormField(app, "instagram_access_token")
                              ELSE FormField(app, "facebook_access_token")
    [] s = "twilio"        -> IF FormField(app, "phone") # ""
                              THEN FormField(app, "phone") ELSE "+525500000000"
    [] s = "bureau"        -> FormField(app, "tax_id")
    [] s = "platform"      -> app.merchant_id

\* The ms argument of withTimeout in the section of source s.
TimeoutMs(s, e) ==
  CASE s = "syntage"       -> e.SYNTAGE_TIMEOUT_MS
    [] s = "google_places" -> 10000
    [] s = "platform"      -> 5000
    [] OTHER               -> 8000

\* The else branch of a skipped section.
OnSkip(s, l) ==
  CASE s = "google_places" -> [l EXCEPT !.placesResult = Some(NotConnected(s))]
    [] s = "facebook"      -> [l EXCEPT !.facebookResult = Some(NotConnected(s))]
    [] s = "instagram"     -> [l EXCEPT !.instagramResult = Some(NotConnected(s))]
    [] OTHER               -> l

\* The try block after the awaited call returned r.
OnResult(s, r, l) ==
  CASE s = "syntage" ->
         [l EXCEPT
            !.syntageResult =
               Some([ annual_revenue  |-> r.annual_revenue,
                      monthly_revenue |-> [n |-> r.annual_revenue, d |-> 12],
                      tax_compliance  |-> Some(OrElse(r.tax_compliance, TRUE)),
                      fetched_at      |-> Now ]),
            !.syntageMonthlyRevenue = [n |-> r.annual_revenue, d |-> 12],
            !.syntageCompliance = OrElse(r.tax_compliance, TRUE),
            !.syntageAvailable = TRUE]
    [] s = "google_places" ->
         IF r.connected
         THEN [l EXCEPT !.placesResult = Some(r),
                        !.placesScore = OrElse(r.signals_score, 0),
                        !.placesAvailable = TRUE]
         ELSE [l EXCEPT !.placesResult = Some(r)]
    [] s = "facebook" ->
         IF r.connected
         THEN [l EXCEPT !.facebookResult = Some(r),
                        !.facebookFanCount = r.fan_count,
                        !.facebookAvailable = TRUE]
         ELSE [l EXCEPT !.facebookResult = Some(r)]
    [] s = "instagram" ->
         IF r.connected
         THEN [l EXCEPT !.instagramResult = Some(r),
                        !.instagramFollowers = r.followers_count,
                        !.instagramAvailable = TRUE]
         ELSE [l EXCEPT !.instagramResult = Some(r)]
    [] s = "twilio" ->
         IF r.connected
         THEN [l EXCEPT !.twilioResult = Some(r),
                        !.twilioIdentityMatch = r.identity_match,
                        !.twilioWhatsapp = r.whatsapp_business,
                        !.twilioSimSwap = r.sim_swap_detected,
                        !.twilioAvailable = TRUE]
         ELSE [l EXCEPT !.twilioResult = Some(r)]
    [] s = "bureau" ->
         IF r.bureau_score # Undefined
         THEN [l EXCEPT !.bureauResult = Some(r),
                        !.bureauScore = r.bureau_score,
                        !.bureauAvailable = TRUE]
         ELSE [l EXCEPT !.bureauResult = Some(r)]
    [] s = "platform" ->
         IF r.avg_platform_gmv_6m # Undefined
         THEN [l EXCEPT !.platformResult = Some(r),
                        !.platformGmv = r.avg_platform_gmv_6m,
                        !.tenureMonths = r.tenure_months,
                        !.platformAvailable = TRUE]
         ELSE [l EXCEPT !.platformResult = Some(r)]

\* Variant: only the four optional sources are guarded.
HasCatchOptionalOnly(s) == s \in {"google_places", "facebook", "instagram", "twilio"}

\* Whether the awaited call of source s stands in a try with a catch.
HasCatch(s) == s \in SourceSet

\* The catch block: the rejection of the call or of the timeout promise.
OnError(s, l) ==
  CASE s = "google_places" -> [l EXCEPT !.placesResult = Some(NotConnected(s))]
    [] s = "facebook"      -> [l EXCEPT !.facebookResult = Some(NotConnected(s))]
    [] s = "instagram"     -> [l EXCEPT !.instagramResult = Some(NotConnected(s))]
    [] s = "twilio"        -> [l EXCEPT !.twilioResult = Some(NotConnected(s))]
    [] OTHER               -> l

(***************************************************************************)
(* withTimeout: Promise.race([promise, timeout]).  The returned promise is *)
(* "pending" until the first of the two settles and keeps that outcome:    *)
(* "promise" when the adapter's promise settled first, "timeout" when the  *)
(* timer's rejection came first.                                          *)
(***************************************************************************)
\* Variant: the adapter's promise is awaited alone, the timer is ignored.
withTimeoutNoRace(raced, settler) ==
  IF raced = "pending" /\ settler = "promise" THEN settler ELSE raced

withTimeout(raced, settler) == IF raced = "pending" THEN settler ELSE raced

(***************************************************************************)
(* Consolidation (sections 9 to 11 and the return statement)               *)
(***************************************************************************)
\* Variant: a source counts as soon as the run holds a result record for it.
AvailableIfFetched(s, l) ==
  CASE s = "syntage"       -> l.syntageResult # Undefined
    [] s = "google_places" -> l.placesResult # Undefined
    [] s = "facebook"      -> l.facebookResult # Undefined
    [] s = "instagram"     -> l.instagramResult # Undefined
    [] s = "twilio"        -> l.twilioResult # Undefined
    [] s = "bureau"        -> l.bureauResult # Undefined
    [] s = "platform"      -> l.platformResult # Undefined

Available(s, l) ==
  CASE s = "syntage"       -> l.syntageAvailable
    [] s = "google_places" -> l.placesAvailable
    [] s = "facebook"      -> l.facebookAvailable
    [] s = "instagram"     -> l.instagramAvailable
    [] s = "twilio"        -> l.twilioAvailable
    [] s = "bureau"        -> l.bureauAvailable
    [] s = "platform"      -> l.platformAvailable

IsAvailableIn(l) == [s \in SourceSet |-> Available(s, l)]

DataSources(l) == SelectSeq(Sources, LAMBDA s : IsAvailableIn(l)[s])

TotalRevenueOf(l) ==
  computeTotalRevenue(l.syntageMonthlyRevenue, l.placesScore, l.bureauScore,
                      l.tenureMonths, l.syntageCompliance, l.facebookFanCount,
                      l.instagramFollowers, l.twilioIdentityMatch,
                      l.twilioWhatsapp, l.twilioSimSwap)

\* Variant: no fallback constant.
PreApprovedBaseOrZero(l) ==
  IF l.platformResult = Undefined THEN 0
  ELSE OrElse(l.platformResult[1].pre_approved_amount, 0)

\* platformResult?.pre_approved_amount ?? 50_000
PreApprovedBase(l) ==
  IF l.platformResult = Undefined THEN 50000
  ELSE OrElse(l.platformResult[1].pre_approved_amount, 50000)

HasSocial(l) == l.placesAvailable \/ l.facebookAvailable \/ l.instagramAvailable

HasFiscal(l) == l.syntageAvailable

\* One sentence of the reason: the source it is about, whether it reports
\* the source as not available, and the values it prints.
ReasonPart(source, unavailable, shown) ==
  [source |-> source, unavailable |-> unavailable, shown |-> shown]

\* The notes of the Twilio sentence.
TwilioNotes(l) ==
  (IF l.twilioIdentityMatch = Some(TRUE) THEN <<"identidad verificada">> ELSE <<>>)
    \o (IF l.twilioWhatsapp = Some(TRUE) THEN <<"WhatsApp Business activo">> ELSE <<>>)
    \o (IF l.twilioSimSwap = Some(TRUE) THEN <<"SIM swap reciente detectado">> ELSE <<>>)

\* buildReason: the sentences pushed to `parts`, in order (they are joined
\* with a blank).
buildReason(l) ==
  <<ReasonPart("intro", FALSE, <<>>)>>
    \o (IF l.syntageAvailable
        THEN <<ReasonPart("syntage", FALSE, <<l.syntageMonthlyRevenue, ~l.syntageCompliance>>)>>
        ELSE <<ReasonPart("syntage", TRUE, <<>>)>>)
    \o (IF l.placesAvailable
        THEN <<ReasonPart("google_places", FALSE, <<l.placesScore>>)>> ELSE <<>>)
    \o (IF l.facebookAvailable /\ l.facebookFanCount # Undefined
        THEN <<ReasonPart("facebook", FALSE, l.facebookFanCount)>> ELSE <<>>)
    \o (IF l.instagramAvailable /\ l.instagramFollowers # Undefined
        THEN <<ReasonPart("instagram", FALSE, l.instagramFollowers)>> ELSE <<>>)
    \o (IF l.twilioAvailable /\ TwilioNotes(l) # <<>>
        THEN <<ReasonPart("twilio", FALSE, TwilioNotes(l))>> ELSE <<>>)
    \o (IF l.bureauAvailable /\ l.bureauScore # Undefined
        THEN <<ReasonPart("bureau", FALSE, l.bureauScore)>> ELSE <<>>)
    \o (IF l.platformAvailable /\ l.platformGmv # Undefined
        THEN <<ReasonPart("platform", FALSE, l.platformGmv)>> ELSE <<>>)

\* What is stored and returned, given the locals l and the environment e.
DecisionOf(l, e, dataSources, totalRevenue, creditOffer) ==
  [ status  |-> DecisionStatus(totalRevenue, e.APPROVAL_THRESHOLD),
    payload |->
      [ credit_offer             |-> creditOffer,
        reason                   |-> buildReason(l),
        syntage_monthly_revenue  |-> l.syntageMonthlyRevenue,
        syntage_tax_compliance   |-> l.syntageCompliance,
        places_signals_score     |-> l.placesScore,
        facebook_fan_count       |-> l.facebookFanCount,
        instagram_followers      |-> l.instagramFollowers,
        twilio_identity_match    |-> l.twilioIdentityMatch,
        twilio_whatsapp_business |-> l.twilioWhatsapp,
        twilio_sim_swap_detected |-> l.twilioSimSwap,
        bureau_score             |-> l.bureauScore,
        platform_gmv_6m          |-> l.platformGmv,
        platform_tenure_months   |-> l.tenureMonths,
        total_revenue            |-> totalRevenue,
        threshold_used           |-> e.APPROVAL_THRESHOLD,
        data_sources             |-> dataSources,
        decided_at               |-> Now ],
    syntage_result   |-> l.syntageResult,
    places_result    |-> l.placesResult,
    facebook_result  |-> l.facebookResult,
    instagram_result |-> l.instagramResult,
    twilio_result    |-> l.twilioResult,
    bureau_result    |-> l.bureauResult,
    platform_result  |-> l.platformResult ]

Decide(l, e) ==
  Only({
    Only({
      Only({
               DecisionOf(a[1], a[2], a[3], totalRevenue, creditOffer) : creditOffer \in {computeCreditOffer(PreApprovedBase(a[1]), a[1].bureauScore,
                                Len(a[3]), HasSocial(a[1]), HasFiscal(a[1]))}}) : totalRevenue \in {TotalRevenueOf(a[1])}}) : a \in {<<l, e, DataSources(l)>>}})

(***************************************************************************)
(* Actions                                                                 *)
(***************************************************************************)
Current == Sources[step]

\* The run leaves the section of the current source.
Proceed ==
  IF step = Len(Sources)
  THEN pc' = "consolidate" /\ step' = step
  ELSE pc' = "enter" /\ step' = step + 1

\* Variant: a failed call ends the sequence of sections.
ResumeOrAbort(r) ==
  IF r # Undefined
  THEN loc' = OnResult(Current, r[1], loc) /\ Proceed
  ELSE /\ loc' = IF HasCatch(Current) THEN OnError(Current, loc) ELSE loc
       /\ pc' = "consolidate"
       /\ step' = step

\* The run resumes after its await: with the result r, or in the catch
\* block when the awaited promise rejected (r = Undefined).
Resume(r) ==
  IF r # Undefined
  THEN loc' = OnResult(Current, r[1], loc) /\ Proceed
  ELSE IF HasCatch(Current)
       THEN loc' = OnError(Current, loc) /\ Proceed
       ELSE loc' = loc /\ pc' = "thrown" /\ step' = step

\* A section whose adapter is not called: the else branch.
Skip ==
  /\ pc = "enter"
  /\ ~ShouldCall(Current, application, env)
  /\ loc' = OnSkip(Current, loc)
  /\ Proceed
  /\ UNCHANGED <<service, memStore, peer, prequal, env, application, plan, calls, callState, timer, race, lateValue, decision>>

\* Variant: the call is issued and the run goes on without awaiting it.
InvokeWithoutAwait ==
  /\ pc = "enter"
  /\ ShouldCall(Current, application, env)
  /\ calls' = Append(calls, [source |-> Current, arg |-> CallArgument(Current, application)])
  /\ callState' = [callState EXCEPT ![Current] = "pending"]
  /\ timer' = [timer EXCEPT ![Current] = [state |-> "armed", ms |-> TimeoutMs(Current, env)]]
  /\ race' = [race EXCEPT ![Current] = "pending"]
  /\ Proceed
  /\ UNCHANGED <<service, memStore, peer, prequal, env, application, plan, loc, lateValue, decision>>

\* await withTimeout(client.call(arg), ms, message): the adapter is called,
\* the timer is set, and the run suspends on the race of the two.
Invoke ==
  /\ pc = "enter"
  /\ ShouldCall(Current, application, env)
  /\ calls' = Append(calls, [source |-> Current, arg |-> CallArgument(Current, application)])
  /\ callState' = [callState EXCEPT ![Current] = "pending"]
  /\ timer' = [timer EXCEPT ![Current] = [state |-> "armed", ms |-> TimeoutMs(Current, env)]]
  /\ race' = [race EXCEPT ![Current] = "pending"]
  /\ pc' = "await"
  /\ UNCHANGED <<service, memStore, peer, prequal, env, application, plan, step, loc, lateValue, decision>>

\* Variant: a result that arrives after the timeout is still stored in the
\* locals of the run.
CallSettlesIntoRun(s) ==
  /\ callState[s] = "pending"
  /\ callState' = [callState EXCEPT ![s] = "settled"]
  /\ race' = [race EXCEPT ![s] = withTimeout(race[s], "promise")]
  /\ IF race[s] = "pending"
     THEN /\ Resume(plan[s].value)
          /\ UNCHANGED lateValue
     ELSE /\ lateValue' = [lateValue EXCEPT ![s] = plan[s].value]
          /\ loc' = IF plan[s].value # Undefined
                    THEN OnResult(s, plan[s].value[1], loc) ELSE loc
          /\ UNCHANGED <<pc, step>>
  /\ UNCHANGED <<service, memStore, peer, prequal, env, application, plan, calls, timer, decision>>

\* The adapter's promise of source s settles.  The run resumes only when
\* this settles the promise it is awaiting.
CallSettles(s) ==
  LET raced == withTimeout(race[s], "promise")
  IN  /\ callState[s] = "pending"
      /\ callState' = [callState EXCEPT ![s] = "settled"]
      /\ race' = [race EXCEPT ![s] = raced]
      /\ IF race[s] = "pending" /\ raced = "promise"
         THEN /\ Resume(plan[s].value)
              /\ UNCHANGED lateValue
         ELSE /\ lateValue' = [lateValue EXCEPT ![s] = plan[s].value]
              /\ UNCHANGED <<pc, step, loc>>
      /\ UNCHANGED <<service, memStore, peer, prequal, env, application, plan, calls, timer, decision>>

\* The timer of source s fires: the timeout promise rejects.
TimerFires(s) ==
  LET raced == withTimeout(race[s], "timeout")
  IN  /\ timer[s].state = "armed"
      /\ timer' = [timer EXCEPT ![s].state =
                     IF callState[s] = "pending" THEN "fired_first" ELSE "fired_stale"]
      /\ race' = [race EXCEPT ![s] = raced]
      /\ IF race[s] = "pending" /\ raced = "timeout"
         THEN Resume(Undefined)
         ELSE UNCHANGED <<pc, step, loc>>
      /\ UNCHANGED <<service, memStore, peer, prequal, env, application, plan, calls, callState, lateValue, decision>>

\* The awaited call returns in time.
AdapterReturns ==
  /\ pc = "await"
  /\ plan[Current].kind = "returns"
  /\ CallSettles(Current)

\* The awaited call rejects in time.
AdapterThrows ==
  /\ pc = "await"
  /\ plan[Current].kind = "throws"
  /\ CallSettles(Current)

\* The timer fires while the call is still pending.
TimerFiresFirst ==
  /\ pc = "await"
  /\ plan[Current].kind \in {"slow", "never"}
  /\ callState[Current] = "pending"
  /\ TimerFires(Current)

\* A call that was still pending when its timer fired settles afterwards.
SlowCallSettles ==
  \E s \in SourceSet :
    /\ plan[s].kind = "slow"
    /\ timer[s].state = "fired_first"
    /\ CallSettles(s)

\* The timer of a call that has settled fires (it is never cleared).
StaleTimerFires ==
  \E s \in SourceSet :
    /\ callState[s] = "settled"
    /\ TimerFires(s)

\* Sections 9 to 11 and the return.
Consolidate ==
  /\ pc = "consolidate"
  /\ pc' = "returned"
  /\ UNCHANGED <<service, memStore, peer, prequal, env, application, plan, step, loc, calls, callState, timer, race, lateValue>>
  /\ decision' = Some(Decide(loc, env))

Next ==
  \/ Skip
  \/ Invoke
  \/ AdapterReturns
  \/ AdapterThrows
  \/ TimerFiresFirst
  \/ SlowCallSettles
  \/ StaleTimerFires
  \/ Consolidate

Spec == Init /\ [][Next]_vars

(***************************************************************************)
(* Scheduling.  Node runs every continuation that is ready, a call that    *)
(* answers in time does answer, and every timer that was set fires.        *)
(***************************************************************************)
Fairness ==
  /\ WF_vars(Skip \/ Invoke \/ Consolidate)
  /\ WF_vars(AdapterReturns \/ AdapterThrows)
  /\ WF_vars(TimerFiresFirst)

\* The runs of one configuration, with and without form data.
LiveInit ==
  /\ Init
  /\ env = [DEMO_MODE |-> FALSE, APPROVAL_THRESHOLD |-> 50000, SYNTAGE_TIMEOUT_MS |-> 3000]
  /\ application.form_data \in {Undefined, Some(FormData("https://maps.google.com/?cid=1",
                                            "fb-token", "ig-token", "+525512345678"))}

FairSpec == LiveInit /\ [][Next]_vars /\ Fairness

(***************************************************************************)
(* The credit offer as a function of its inputs: the run is placed at the  *)
(* end of section 8 with locals drawn from bounded sets, and sections 9 to *)
(* 11 are applied to them.                                                 *)
(***************************************************************************)
OfferBases ==
  {0, 1, 499, 1000, 2000, 12345, 50000, 74000, 80000, 99999, 150000, 1000000}

OfferBureauScores == {Undefined, Some(600), Some(601), Some(700), Some(701), Some(720)}

\* The locals after the eight sections, for the given fiscal and listing
\* availability, bureau score and pre-approved amount.
OfferLocals(fiscal, social, bureau, base) ==
  LET l1 == IF fiscal THEN OnResult("syntage", DemoStub("syntage"), InitialLocals)
            ELSE OnError("syntage", InitialLocals)
      l2 == IF social THEN OnResult("google_places", DemoStub("google_places"), l1)
            ELSE OnSkip("google_places", l1)
      l3 == OnSkip("instagram", OnSkip("facebook", l2))
      l4 == OnError("twilio", l3)
      l5 == OnResult("bureau", BureauResult(bureau), l4)
  IN  IF base = Undefined THEN OnError("platform", l5)
      ELSE OnResult("platform", PlatformResult(Some(900000), Some(36), base), l5)

OfferInit ==
  /\ env \in Envs
  /\ application \in Applications
  /\ plan = AllUp
  /\ pc = "consolidate"
  /\ step = Len(Sources)
  /\ \E fiscal \in BOOLEAN, social \in BOOLEAN, bureau \in OfferBureauScores,
        base \in {Undefined} \cup {Some(b) : b \in OfferBases} :
       loc = OfferLocals(fiscal, social, bureau, base)
  /\ calls = <<>>
  /\ callState = [s \in SourceSet |-> "none"]
  /\ timer = [s \in SourceSet |-> NoTimer]
  /\ race = [s \in SourceSet |-> "none"]
  /\ lateValue = [s \in SourceSet |-> Undefined]
  /\ decision = Undefined
  /\ service = NoService
  /\ memStore = NoStore /\ peer = NoPeer /\ prequal = NoPrequal

OfferNext == Consolidate

SpecOffer == OfferInit /\ [][OfferNext]_vars

(***************************************************************************)
(* Properties of a run                                                     *)
(***************************************************************************)
\* C1: when the Syntage call throws or times out, the decision carries
\* total_revenue = 0 and status REJECTED, whatever the other sources
\* return and whatever the approval threshold is.
C1_SyntageDownRejects ==
  (pc = "returned" /\ plan["syntage"].kind \in {"throws", "slow", "never"})
    => /\ decision[1].payload.total_revenue = 0
       /\ decision[1].status = "REJECTED"

\* C2: runUnderwriting never propagates an exception, whatever the adapters
\* do and whatever the application snapshot holds.
C2_NeverThrows == pc # "thrown"

C2_Witness ==
  /\ pc = "returned"
  /\ application.form_data = Undefined
  /\ \E s \in SourceSet : plan[s].kind = "throws" /\ callState[s] = "settled"

\* C4: the status is APPROVED when total_revenue >= threshold, MANUAL_REVIEW
\* when 0 < total_revenue < threshold, REJECTED when total_revenue = 0, and
\* always one of the three.
C4_StatusRule ==
  pc = "returned" =>
    LET total     == decision[1].payload.total_revenue
        threshold == decision[1].payload.threshold_used
        status    == decision[1].status
    IN  /\ status \in {"APPROVED", "MANUAL_REVIEW", "REJECTED"}
        /\ total >= threshold => status = "APPROVED"
        /\ (0 < total /\ total < threshold) => status = "MANUAL_REVIEW"
        /\ total = 0 => status = "REJECTED"

\* C10: on completion each of the seven source results is present, a record
\* or a not-connected sentinel, and carries a fetch timestamp, also for a
\* source whose call threw or timed out.
C10_ResultsPresent ==
  pc = "returned" =>
    \A r \in { decision[1].syntage_result, decision[1].places_result,
               decision[1].facebook_result, decision[1].instagram_result,
               decision[1].twilio_result, decision[1].bureau_result,
               decision[1].platform_result } :
      r # Undefined /\ r[1].fetched_at = Now

\* C3: with every timer eventually firing, the run completes even when
\* adapter calls never settle; the timers are set to SYNTAGE_TIMEOUT_MS for
\* Syntage, 10000 for the listings, 8000 for Facebook, Instagram, Twilio
\* and the bureau, and 5000 for the platform.
C3_Completes ==
  /\ [](\A s \in SourceSet :
          timer[s].state # "none" =>
            timer[s].ms = CASE s = "syntage"       -> env.SYNTAGE_TIMEOUT_MS
                            [] s = "google_places" -> 10000
                            [] s = "platform"      -> 5000
                            [] s \in {"facebook", "instagram", "twilio", "bureau"} -> 8000)
  /\ <>(pc = "returned")

C3_Witness ==
  /\ pc = "returned"
  /\ Len(calls) = Len(Sources)
  /\ \A s \in SourceSet : plan[s].kind = "never" /\ timer[s].state = "fired_first"

\* C5: in every credit offer the withholding and the direct debit add up to
\* the monthly payment.
C5_OfferSplits ==
  decision # Undefined =>
    LET offer == decision[1].payload.credit_offer
    IN  offer.withholding_amount + offer.direct_debit_amount = offer.monthly_payment

C5_Witness ==
  /\ decision # Undefined
  /\ decision[1].payload.credit_offer.monthly_payment % 5 \in {1, 2}
  /\ decision[1].payload.credit_offer.withholding_amount > 0

\* The locals each section assigns.
LocalsOf(s) ==
  CASE s = "syntage"       -> {"syntageResult", "syntageMonthlyRevenue",
                               "syntageAvailable", "syntageCompliance"}
    [] s = "google_places" -> {"placesResult", "placesScore", "placesAvailable"}
    [] s = "facebook"      -> {"facebookResult", "facebookFanCount", "facebookAvailable"}
    [] s = "instagram"     -> {"instagramResult", "instagramFollowers", "instagramAvailable"}
    [] s = "twilio"        -> {"twilioResult", "twilioIdentityMatch", "twilioWhatsapp",
                               "twilioSimSwap", "twilioAvailable"}
    [] s = "bureau"        -> {"bureauResult", "bureauScore", "bureauAvailable"}
    [] s = "platform"      -> {"platformResult", "platformGmv", "tenureMonths",
                               "platformAvailable"}

\* The locals l with those of source s as they were declared.
WithoutSource(s, l) ==
  [f \in DOMAIN l |-> IF f \in LocalsOf(s) THEN InitialLocals[f] ELSE l[f]]

\* The factors of the product that source s feeds.
SourceFactors(s, l) ==
  CASE s = "google_places" -> {PlacesBoost(l.placesScore)}
    [] s = "facebook"      -> {<<100 + FacebookBoost(l.facebookFanCount), 100>>}
    [] s = "instagram"     -> {<<100 + InstagramBoost(l.instagramFollowers), 100>>}
    [] s = "twilio"        -> {IdentityBoost(l.twilioIdentityMatch),
                               WhatsappBoost(l.twilioWhatsapp),
                               SimSwapPenalty(l.twilioSimSwap)}
    [] s = "bureau"        -> {BureauMultiplier(l.bureauScore)}
    [] s = "platform"      -> {TenureMultiplier(l.tenureMonths)}

\* C6: a non-tax source that is unavailable (skipped, not connected, threw,
\* timed out) contributes the factor 1.0, and total_revenue is the total of
\* the remaining sources, independent of what the source returned.
C6_UnavailableIsNeutral ==
  pc = "returned" =>
    \A s \in SourceSet \ {"syntage"} :
      ~Available(s, loc) =>
        /\ \A f \in SourceFactors(s, loc) : f[1] = f[2]
        /\ decision[1].payload.total_revenue = TotalRevenueOf(WithoutSource(s, loc))

C6_Witness ==
  /\ pc = "returned"
  /\ decision[1].payload.total_revenue > 0
  /\ plan["google_places"] = Returns(PlacesResult(FALSE, Some(72)))
  /\ callState["google_places"] = "settled"
  /\ ~Available("google_places", loc)

\* C7: a failed adapter never aborts the sequence: the calls made are those
\* the application and the configuration ask for, whatever earlier calls did.
C7_SequenceNeverAborted ==
  pc \in {"consolidate", "returned"} =>
    LET due == SelectSeq(Sources, LAMBDA s : ShouldCall(s, application, env))
    IN  calls = [i \in 1..Len(due) |->
                   [source |-> due[i], arg |-> CallArgument(due[i], application)]]

C7_Witness ==
  /\ pc = "returned"
  /\ plan["syntage"].kind = "throws"
  /\ Len(calls) = Len(Sources)

SourceIndex(s) == CHOOSE i \in 1..Len(Sources) : Sources[i] = s

\* C8: the adapters are called in the fixed order, each at most once, and
\* none before the wait for the preceding one has ended.
C8_OrderedOnce ==
  /\ \A i, j \in 1..Len(calls) :
       i < j => SourceIndex(calls[i].source) < SourceIndex(calls[j].source)
  /\ \A i \in 1..Len(calls) : i < Len(calls) => race[calls[i].source] # "pending"

C8_Witness ==
  /\ pc = "returned"
  /\ Len(calls) = Len(Sources)
  /\ \A s \in SourceSet : plan[s].kind = "returns"

\* The locals l had the call of source s been rejected.
AsFailed(s, l) == OnError(s, WithoutSource(s, l))

\* C9: when the timer of a call fires first, the source is unavailable and
\* the decision is the one of a failed call, whatever the call delivers
\* later; a timer that fires after its call settled changes nothing of the
\* run.
C9_TimeoutRace ==
  /\ [](pc = "returned" =>
          \A s \in SourceSet :
            timer[s].state = "fired_first" =>
              /\ ~Available(s, loc)
              /\ ~\E i \in 1..Len(decision[1].payload.data_sources) :
                    decision[1].payload.data_sources[i] = s
              /\ decision[1] = Decide(AsFailed(s, loc), env))
  /\ [][(\E s \in SourceSet :
           /\ callState[s] = "settled"
           /\ timer[s].state = "armed"
           /\ timer'[s].state # "armed")
          => UNCHANGED <<pc, step, loc, calls, race, decision>>]_vars

C9_Witness ==
  /\ pc = "returned"
  /\ \E s \in SourceSet : timer[s].state = "fired_first" /\ lateValue[s] # Undefined
  /\ \E s \in SourceSet : timer[s].state = "fired_stale"


(***************************************************************************)
(* The adapters (clients/*.ts).  An adapter is a function of the           *)
(* configuration, of its argument and of what the provider answers to each *)
(* HTTP request it makes; it settles as Returns(result) or as Throws.      *)
(***************************************************************************)
\* An axios request that rejects (network error, timeout, non-2xx status).
Failed == [ok |-> FALSE, data |-> Undefined]

\* A response with body d; Body(Undefined) is a response without a body.
Body(d) == [ok |-> TRUE, data |-> Some(d)]

NoBody == [ok |-> TRUE, data |-> Undefined]

ApiKeys == {"SYNTAGE_API_KEY", "GOOGLE_PLACES_API_KEY", "FACEBOOK_APP_ID", "TWILIO_ACCOUNT_SID"}

\* env.DEMO_MODE || !env.<key>
UsesStub(e, key) == e.DEMO_MODE \/ key \notin e.keys

\* SyntageClient.getRevenueData: the response body is returned as it is,
\* and a rejected request rejects the call.
getRevenueData(merchantId, e, http) ==
  IF UsesStub(e, "SYNTAGE_API_KEY") THEN Returns(DemoStub("syntage"))
  ELSE IF ~http.ok THEN Throws
  ELSE Returns(http.data[1])

SyntageResponses ==
  {Failed} \cup
  { Body(SyntageRevenueData(a, c)) :
      a \in {-120000, 0, 720000}, c \in {Undefined, Some(FALSE)} }

\* The Maps URLs told apart by extractPlaceId.
ChijUrl == "https://www.google.com/maps/place/Los+Aguacates/data=!1sChIJM8FgMXnHxYURW1vYTA2hgcg"

CidUrl == "https://maps.google.com/?cid=1"

NameUrl == "https://www.google.com/maps/place/Los+Aguacates/@19.04,-98.2"

OtherUrl == "https://example.com/los-aguacates"

\* extractPlaceId: the !1sChIJ segment, else the cid, else the name in the
\* path, else null.
extractPlaceId(mapsUrl) ==
  CASE mapsUrl = ChijUrl -> Some("ChIJM8FgMXnHxYURW1vYTA2hgcg")
    [] mapsUrl = CidUrl  -> Some("1")
    [] mapsUrl = NameUrl -> Some("Los Aguacates")
    [] OTHER             -> Undefined

\* identifier.startsWith("ChIJ")
StartsWithChIJ(identifier) == identifier = "ChIJM8FgMXnHxYURW1vYTA2hgcg"

\* A categories entry that is not a string.
NonString == "<non-string>"

\* c.toLowerCase().includes(t) for some t of commercialTypes.
IsCommercialType(c) ==
  c \in {"restaurant", "Mexican restaurant", "food", "store", "Bakery", "cafe", "bar",
         "supermarket", "pharmacy"}

\* data.categories?.some(...): "yes" or "no", or "throws" when toLowerCase
\* is called on an entry that is not a string before a match is found.
RECURSIVE HasCommercialType(_)
HasCommercialType(categories) ==
  IF categories = <<>> THEN "no"
  ELSE IF Head(categories) = NonString THEN "throws"
  ELSE IF IsCommercialType(Head(categories)) THEN "yes"
  ELSE HasCommercialType(Tail(categories))

\* Truthiness of an optional number: defined and not 0.
Truthy(n) == n # Undefined /\ n[1] # 0

\* Rating, in tenths of a star.
RatingPoints(rating) ==
  IF ~Truthy(rating) THEN 0
  ELSE IF rating[1] >= 45 THEN 25
  ELSE IF rating[1] >= 40 THEN 20
  ELSE IF rating[1] >= 35 THEN 12
  ELSE 5

ReviewPoints(count) ==
  IF ~Truthy(count) THEN 0
  ELSE IF count[1] >= 200 THEN 20
  ELSE IF count[1] >= 100 THEN 15
  ELSE IF count[1] >= 50 THEN 10
  ELSE IF count[1] >= 10 THEN 5
  ELSE 0

PricePoints(level) == IF Truthy(level) /\ level[1] >= 3 THEN 5 ELSE 0

Min(a, b) == IF a <= b THEN a ELSE b

\* Variant: the number of reviews itself is added to the score, and the sum
\* is returned as it is.
computeSignalsScoreByCount(data) ==
  RatingPoints(data.rating)
    + (IF Truthy(data.total_review_count) THEN data.total_review_count[1] ELSE 0)
    + (IF data.is_verified THEN 10 ELSE 0)
    + (IF data.has_website THEN 10 ELSE 0)
    + (IF data.business_status = "OPERATIONAL" THEN 10 ELSE 0)
    + (IF HasCommercialType(data.categories) = "yes" THEN 10 ELSE 0)
    + PricePoints(data.price_level_index)

\* GooglePlacesClient.computeSignalsScore, for categories it does not throw on.
computeSignalsScore(data) ==
  Min(RatingPoints(data.rating)
        + ReviewPoints(data.total_review_count)
        + (IF data.is_verified THEN 10 ELSE 0)
        + (IF data.has_website THEN 10 ELSE 0)
        + (IF data.business_status = "OPERATIONAL" THEN 10 ELSE 0)
        + (IF HasCommercialType(data.categories) = "yes" THEN 10 ELSE 0)
        + PricePoints(data.price_level_index),
      100)

\* The `result` object built from the Place Details answer p.
PlacesData(p) ==
  [ rating             |-> p.rating,
    total_review_count |-> p.user_ratings_total,
    price_level_index  |-> p.price_level,
    categories         |-> OrElse(p.types, <<>>),
    has_website        |-> p.website # Undefined,
    business_status    |-> OrElse(p.business_status, "UNKNOWN"),
    is_verified        |-> TRUE ]

\* The part of getPlacesData after the Place ID is known.
PlaceDetailsResult(details) ==
  IF ~details.ok \/ details.data = Undefined THEN NotConnected("google_places")
  ELSE IF details.data[1].result = Undefined THEN NotConnected("google_places")
  ELSE IF HasCommercialType(PlacesData(details.data[1].result[1]).categories) = "throws"
       THEN NotConnected("google_places")
  ELSE PlacesResult(TRUE, Some(computeSignalsScore(PlacesData(details.data[1].result[1]))))

\* GooglePlacesClient.getPlacesData: every failure after extractPlaceId is
\* caught and answered with the not-connected record.
getPlacesData(mapsUrl, e, search, details) ==
  IF UsesStub(e, "GOOGLE_PLACES_API_KEY") THEN Returns(DemoStub("google_places"))
  ELSE IF extractPlaceId(mapsUrl) = Undefined THEN Returns(NotConnected("google_places"))
  ELSE IF StartsWithChIJ(extractPlaceId(mapsUrl)[1]) THEN Returns(PlaceDetailsResult(details))
  ELSE IF ~search.ok \/ search.data = Undefined THEN Returns(NotConnected("google_places"))
  ELSE IF search.data[1].candidates = <<>> THEN Returns(NotConnected("google_places"))
  ELSE IF search.data[1].candidates[1].place_id = Undefined
       THEN Returns(NotConnected("google_places"))
  ELSE Returns(PlaceDetailsResult(details))

SearchResponses ==
  { Failed, NoBody, Body([candidates |-> <<>>]),
    Body([candidates |-> <<[place_id |-> Undefined]>>]),
    Body([candidates |-> <<[place_id |-> Some("ChIJM8FgMXnHxYURW1vYTA2hgcg")]>>]) }

PlaceDetails ==
  [ rating             : {Undefined, Some(0), Some(30), Some(35), Some(40), Some(45)},
    user_ratings_total : {Undefined, Some(0), Some(9), Some(10), Some(50), Some(100), Some(200)},
    price_level        : {Undefined, Some(0), Some(2), Some(3)},
    types              : {Undefined, Some(<<>>), Some(<<"point_of_interest">>),
                          Some(<<"Mexican restaurant", NonString>>),
                          Some(<<NonString, "food">>)},
    website            : {Undefined, Some("https://losaguacates.mx")},
    business_status    : {Undefined, Some("OPERATIONAL"), Some("CLOSED_TEMPORARILY")} ]

DetailsResponses ==
  {Failed, NoBody, Body([result |-> Undefined])}
    \cup { Body([result |-> Some(p)]) : p \in PlaceDetails }

\* FacebookClient.getPageData: the first page of /me/accounts, if any.
getPageData(userAccessToken, e, pages) ==
  IF UsesStub(e, "FACEBOOK_APP_ID") THEN Returns(DemoStub("facebook"))
  ELSE IF ~pages.ok \/ pages.data = Undefined THEN Returns(NotConnected("facebook"))
  ELSE IF pages.data[1].data = <<>> THEN Returns(NotConnected("facebook"))
  ELSE Returns(FacebookResult(TRUE, pages.data[1].data[1].fan_count))

PagesResponses ==
  { Failed, NoBody, Body([data |-> <<>>]) }
    \cup { Body([data |-> <<[fan_count |-> f, instagram_business_account |-> a]>>]) :
             f \in {Undefined, Some(0), Some(999), Some(5000)},
             a \in {Undefined, Some("ig-1")} }

\* InstagramClient.getProfileData: the Instagram account linked to the
\* first page, then its profile.
getProfileData(userAccessToken, e, pages, profile) ==
  IF UsesStub(e, "FACEBOOK_APP_ID") THEN Returns(DemoStub("instagram"))
  ELSE IF ~pages.ok \/ pages.data = Undefined THEN Returns(NotConnected("instagram"))
  ELSE IF pages.data[1].data = <<>> THEN Returns(NotConnected("instagram"))
  ELSE IF pages.data[1].data[1].instagram_business_account = Undefined
       THEN Returns(NotConnected("instagram"))
  ELSE IF ~profile.ok \/ profile.data = Undefined THEN Returns(NotConnected("instagram"))
  ELSE Returns(InstagramResult(TRUE, profile.data[1].followers_count))

ProfileResponses ==
  { Failed, NoBody }
    \cup { Body([followers_count |-> f]) : f \in {Undefined, Some(0), Some(1000), Some(5000)} }

\* TwilioClient.verifyPhone: the three flags derived from the Lookup answer.
verifyPhone(phone, e, lookup) ==
  IF UsesStub(e, "TWILIO_ACCOUNT_SID") THEN Returns(DemoStub("twilio"))
  ELSE IF ~lookup.ok \/ lookup.data = Undefined THEN Returns(NotConnected("twilio"))
  ELSE Returns(TwilioResult(
         TRUE,
         Some(OrElse(lookup.data[1].first_name_match, "no_data") \in {"exact", "high"}),
         IF lookup.data[1].whatsapp_status = Some("successful")
         THEN Some(lookup.data[1].whatsapp_registered = Some(TRUE))
         ELSE Undefined,
         Some(lookup.data[1].swapped_period \in {Some("PT24H"), Some("P7D")})))

LookupResponses ==
  { Failed, NoBody }
    \cup { Body([first_name_match |-> m, whatsapp_status |-> w,
                 whatsapp_registered |-> r, swapped_period |-> p]) :
             m \in {Undefined, Some("exact"), Some("low")},
             w \in {Undefined, Some("successful")},
             r \in {Undefined, Some(TRUE)},
             p \in {Undefined, Some("P7D"), Some("P30D")} }

\* BureauClient.getScore: the stub, in demo mode and in production.
getScore(taxId, e) == Returns(DemoStub("bureau"))

\* PlatformClient.getMerchantData: the stub, in demo mode and in production.
getMerchantData(merchantId, e) == Returns(DemoStub("platform"))

(***************************************************************************)
(* Runs in which the adapter of one source is the client code above; the   *)
(* other adapters answer with their stub, or not at all.                   *)
(***************************************************************************)
\* The call has been made and the adapter has not settled yet.
Running == [kind |-> "running", value |-> Undefined]

AdapterPlans ==
  { [base EXCEPT ![d] = Running] : <<base, d>> \in {AllUp, AllDown} \X SourceSet }

\* The keys that are set; the schema demands GOOGLE_PLACES_API_KEY outside
\* demo mode.
AdapterEnvs ==
  [ DEMO_MODE          : {TRUE},
    APPROVAL_THRESHOLD : {50000},
    SYNTAGE_TIMEOUT_MS : {3000},
    keys               : {{}, ApiKeys} ]
  \cup
  [ DEMO_MODE          : {FALSE},
    APPROVAL_THRESHOLD : {50000},
    SYNTAGE_TIMEOUT_MS : {3000},
    keys               : {{"GOOGLE_PLACES_API_KEY"}, ApiKeys} ]

AdapterApplications ==
  [ merchant_id : {"m1"},
    form_data   : {Undefined} \cup
                  { Some(FormData(url, "fb-token", "ig-token", "+525512345678")) :
                      url \in {ChijUrl, CidUrl, NameUrl, OtherUrl} } ]

AdapterInit ==
  /\ env \in AdapterEnvs
  /\ application \in AdapterApplications
  /\ plan \in AdapterPlans
  /\ pc = "enter"
  /\ step = 1
  /\ loc = InitialLocals
  /\ calls = <<>>
  /\ callState = [s \in SourceSet |-> "none"]
  /\ timer = [s \in SourceSet |-> NoTimer]
  /\ race = [s \in SourceSet |-> "none"]
  /\ lateValue = [s \in SourceSet |-> Undefined]
  /\ decision = Undefined
  /\ service = NoService
  /\ memStore = NoStore /\ peer = NoPeer /\ prequal = NoPrequal

\* The adapter of source s has been called and has not settled.
IsRunning(s) == callState[s] = "pending" /\ plan[s] = Running

\* The adapter of source s runs to its outcome.
AdapterRuns(s, outcome) ==
  /\ plan' = [plan EXCEPT ![s] = outcome]
  /\ UNCHANGED <<service, memStore, peer, prequal, env, application, pc, step, loc, calls, callState, timer, race, lateValue, decision>>

SyntageGetRevenueData ==
  /\ IsRunning("syntage")
  /\ \E http \in SyntageResponses :
       AdapterRuns("syntage", getRevenueData(CallArgument("syntage", application), env, http))

GooglePlacesGetPlacesData ==
  /\ IsRunning("google_places")
  /\ \E search \in SearchResponses, details \in DetailsResponses :
       AdapterRuns("google_places",
                   getPlacesData(CallArgument("google_places", application), env, search, details))

FacebookGetPageData ==
  /\ IsRunning("facebook")
  /\ \E pages \in PagesResponses :
       AdapterRuns("facebook", getPageData(CallArgument("facebook", application), env, pages))

InstagramGetProfileData ==
  /\ IsRunning("instagram")
  /\ \E pages \in PagesResponses, profile \in ProfileResponses :
       AdapterRuns("instagram",
                   getProfileData(CallArgument("instagram", application), env, pages, profile))

TwilioVerifyPhone ==
  /\ IsRunning("twilio")
  /\ \E lookup \in LookupResponses :
       AdapterRuns("twilio", verifyPhone(CallArgument("twilio", application), env, lookup))

BureauGetScore ==
  /\ IsRunning("bureau")
  /\ AdapterRuns("bureau", getScore(CallArgument("bureau", application), env))

PlatformGetMerchantData ==
  /\ IsRunning("platform")
  /\ AdapterRuns("platform", getMerchantData(CallArgument("platform", application), env))

\* Timers that fire after their call has settled are left to Spec.
AdapterNext ==
  \/ Skip
  \/ Invoke
  \/ SyntageGetRevenueData
  \/ GooglePlacesGetPlacesData
  \/ FacebookGetPageData
  \/ InstagramGetProfileData
  \/ TwilioVerifyPhone
  \/ BureauGetScore
  \/ PlatformGetMerchantData
  \/ AdapterReturns
  \/ AdapterThrows
  \/ TimerFiresFirst
  \/ Consolidate

SpecAdapters == AdapterInit /\ [][AdapterNext]_vars

\* C11: no adapter rejects: whatever the provider answers, the call of
\* each of the seven adapters settles by returning a result.
C11_AdaptersNeverReject == \A s \in SourceSet : plan[s].kind # "throws"

\* C12: the total revenue of the payload is never negative, whatever annual
\* revenue figure the tax source returns.
C12_TotalRevenueNonNegative ==
  decision # Undefined => decision[1].payload.total_revenue >= 0

\* C15: the listings score is an integer from 0 to 100: the score in the
\* result of getPlacesData (computed by computeSignalsScore, or the stub's),
\* the places score of the run, and places_signals_score in the payload.
C15_ListingScoreInRange ==
  /\ \A r \in {plan["google_places"]} :
       (r.kind = "returns" /\ r.value[1].signals_score # Undefined)
         => r.value[1].signals_score[1] \in 0 .. 100
  /\ loc.placesScore \in 0 .. 100
  /\ decision # Undefined => decision[1].payload.places_signals_score \in 0 .. 100

\* A run whose payload carries the highest score computeSignalsScore gives.
C15_Witness ==
  /\ ~UsesStub(env, "GOOGLE_PLACES_API_KEY")
  /\ decision # Undefined
  /\ decision[1].payload.places_signals_score = 90
  /\ decision[1].places_result = Some(PlacesResult(TRUE, Some(90)))

(***************************************************************************)
(* The total revenue as a function of its inputs: the run is placed at the *)
(* end of section 8 with the locals that the results drawn here leave, and *)
(* sections 9 to 11 are applied to them.                                   *)
(***************************************************************************)
RevenueInit ==
  /\ env \in Envs
  /\ application \in Applications
  /\ plan = AllUp
  /\ pc = "consolidate"
  /\ step = Len(Sources)
  /\ \E annual \in {-120000, -7, 0, 5, 720000, 1234567},
        compliance \in {Undefined, Some(FALSE)},
        score \in {0, 72, 100},
        fans \in {Undefined, Some(5000)},
        simSwap \in {Some(FALSE), Some(TRUE)},
        bureau \in {300, 600, 601, 700, 701, 850} :
       loc = OnResult("bureau", BureauResult(Some(bureau)),
             OnResult("twilio", TwilioResult(TRUE, Some(TRUE), Undefined, simSwap),
             OnResult("facebook", FacebookResult(TRUE, fans),
             OnResult("google_places", PlacesResult(TRUE, Some(score)),
             OnResult("syntage", SyntageRevenueData(annual, compliance),
                      InitialLocals)))))
  /\ calls = <<>>
  /\ callState = [s \in SourceSet |-> "none"]
  /\ timer = [s \in SourceSet |-> NoTimer]
  /\ race = [s \in SourceSet |-> "none"]
  /\ lateValue = [s \in SourceSet |-> Undefined]
  /\ decision = Undefined
  /\ service = NoService
  /\ memStore = NoStore /\ peer = NoPeer /\ prequal = NoPrequal

SpecRevenue == RevenueInit /\ [][Consolidate]_vars

\* C14: with the base and every other signal fixed, the total revenue for a
\* bureau score of at most 600 is never above the total revenue for a
\* bureau score above 700.
C14_BureauMonotone ==
  (pc = "returned" /\ loc.bureauScore[1] <= 600)
    => \A high \in {701, 850} :
         decision[1].payload.total_revenue
           <= TotalRevenueOf([loc EXCEPT !.bureauScore = Some(high)])

(***************************************************************************)
(* Properties of the credit offer and of the list of sources               *)
(***************************************************************************)
\* C16: the tier multiplier is 2.0 when the fiscal source is available,
\* else 1.4 when Facebook or Instagram is available, else 1.2: the approved
\* amount of the run is its base under that multiplier.
C16_TierMultiplier ==
  decision # Undefined =>
    LET listed(s) == \E i \in DOMAIN decision[1].payload.data_sources :
                       decision[1].payload.data_sources[i] = s
        tier == IF listed("syntage") THEN 20
                ELSE IF listed("facebook") \/ listed("instagram") THEN 14
                ELSE 12
    IN  decision[1].payload.credit_offer.approved_amount
          = ApprovedAmount(PreApprovedBase(loc), tier)

\* C17 as stated: the approved amount is a multiple of 1000 and is
\* base x multiplier rounded down, so it never exceeds base x multiplier.
C17_RoundedDown ==
  decision # Undefined =>
    LET approved == decision[1].payload.credit_offer.approved_amount
        tenths   == PreApprovedBase(loc) * TierMultiplier(HasSocial(loc), HasFiscal(loc))
    IN  approved % 1000 = 0 /\ 10 * approved <= tenths

\* C17 amended: the approved amount is a multiple of 1000 nearest to
\* base x multiplier: the two differ by at most 500.
C17_RoundedToNearest ==
  decision # Undefined =>
    LET approved == decision[1].payload.credit_offer.approved_amount
        tenths   == PreApprovedBase(loc) * TierMultiplier(HasSocial(loc), HasFiscal(loc))
    IN  /\ approved % 1000 = 0
        /\ 10 * approved - tenths <= 5000
        /\ tenths - 10 * approved <= 5000

\* An offer whose approved amount lies above base x multiplier.
C17_Witness ==
  /\ decision # Undefined
  /\ PreApprovedBase(loc) = 74000
  /\ ~HasSocial(loc) /\ ~HasFiscal(loc)
  /\ decision[1].payload.credit_offer.approved_amount = 89000

\* C19: data_sources lists exactly the sources that were available in the
\* run (the call was made, returned before its timer fired, and its result
\* is connected or carries the score or volume), each once and in the
\* order of the sections; hasFiscal holds exactly when syntage is listed.
C19_DataSources ==
  decision # Undefined =>
    LET ds == decision[1].payload.data_sources
        usable(s, r) ==
          CASE s = "syntage"  -> TRUE
            [] s = "bureau"   -> r.bureau_score # Undefined
            [] s = "platform" -> r.avg_platform_gmv_6m # Undefined
            [] OTHER          -> r.connected
        wasAvailable(s) ==
          /\ race[s] = "promise"
          /\ plan[s].kind = "returns"
          /\ usable(s, plan[s].value[1])
    IN  /\ \A s \in SourceSet : (\E i \in DOMAIN ds : ds[i] = s) <=> wasAvailable(s)
        /\ \A i, j \in DOMAIN ds : i < j => SourceIndex(ds[i]) < SourceIndex(ds[j])
        /\ HasFiscal(loc) <=> (\E i \in DOMAIN ds : ds[i] = "syntage")

\* A run that lists some sources and leaves out a source whose adapter
\* answered "not connected".
C19_Witness ==
  /\ decision # Undefined
  /\ decision[1].payload.data_sources = <<"syntage", "google_places", "instagram", "twilio", "bureau", "platform">>
  /\ plan["facebook"].kind = "returns"
  /\ race["facebook"] = "promise"

\* C20: a run in which all seven sources are unavailable returns REJECTED
\* with a reason that reports each of the seven sources as not available.
C20_AllDownExplained ==
  (decision # Undefined /\ decision[1].payload.data_sources = <<>>)
    => /\ decision[1].status = "REJECTED"
       /\ \A s \in SourceSet :
            \E i \in DOMAIN decision[1].payload.reason :
              /\ decision[1].payload.reason[i].source = s
              /\ decision[1].payload.reason[i].unavailable

(***************************************************************************)
(* runPrequalification: the platform adapter alone, under a 5000 ms        *)
(* timeout, and the three offers on the base it gives.                     *)
(***************************************************************************)
\* Variant: the fallback applies only when the amount is absent
\* (`??` in place of the truthiness test).
PrequalBaseIfAbsent(platform) ==
  IF platform = Undefined THEN 50000
  ELSE OrElse(platform[1].pre_approved_amount, 50000)

\* let baseAmount = 50_000; if (platform.pre_approved_amount) baseAmount = ...
\* platform is Undefined when the awaited call rejected (empty catch).
PrequalBase(platform) ==
  IF platform # Undefined /\ Truthy(platform[1].pre_approved_amount)
  THEN platform[1].pre_approved_amount[1]
  ELSE 50000

\* The object returned for the base amount.
PrequalResult(baseAmount) ==
  [ base_amount  |-> baseAmount,
    bureau_offer |-> ApprovedAmount(baseAmount, 12),
    social_offer |-> ApprovedAmount(baseAmount, 14),
    fiscal_offer |-> ApprovedAmount(baseAmount, 20) ]

PrequalPlans ==
  { [AllUp EXCEPT !["platform"] = o] :
      o \in {Throws, Never}
            \cup UNION { {Returns(PlatformResult(Some(900000), Some(36), a)),
                          Slow(PlatformResult(Some(900000), Some(36), a))} :
                         a \in {Undefined, Some(0), Some(1), Some(499), Some(1250), Some(12345),
                                Some(50000), Some(74000), Some(150000)} } }

PrequalInit ==
  /\ env \in Envs
  /\ application = [merchant_id |-> "m1", form_data |-> Undefined]
  /\ plan \in PrequalPlans
  /\ pc = "none"
  /\ step = 1
  /\ loc = InitialLocals
  /\ calls = <<>>
  /\ callState = [s \in SourceSet |-> "none"]
  /\ timer = [s \in SourceSet |-> NoTimer]
  /\ race = [s \in SourceSet |-> "none"]
  /\ lateValue = [s \in SourceSet |-> Undefined]
  /\ decision = Undefined
  /\ service = NoService
  /\ memStore = NoStore /\ peer = NoPeer
  /\ prequal = [pc |-> "start", result |-> Undefined]

\* await withTimeout(platformClient.getMerchantData(merchantId), 5000, ...)
PrequalInvoke ==
  /\ prequal.pc = "start"
  /\ calls' = Append(calls, [source |-> "platform", arg |-> application.merchant_id])
  /\ callState' = [callState EXCEPT !["platform"] = "pending"]
  /\ timer' = [timer EXCEPT !["platform"] = [state |-> "armed", ms |-> 5000]]
  /\ race' = [race EXCEPT !["platform"] = "pending"]
  /\ prequal' = [prequal EXCEPT !.pc = "await"]
  /\ UNCHANGED <<service, memStore, peer, env, application, plan, pc, step, loc, lateValue, decision>>

\* The rest of the function, resumed with the platform result or in the
\* catch block (platform = Undefined).
PrequalResume(platform) ==
  prequal' = [pc |-> "returned", result |-> Some(PrequalResult(PrequalBase(platform)))]

\* The platform call settles in time.
PrequalCallSettles ==
  LET raced == withTimeout(race["platform"], "promise")
  IN  /\ prequal.pc = "await"
      /\ plan["platform"].kind \in {"returns", "throws"}
      /\ callState["platform"] = "pending"
      /\ callState' = [callState EXCEPT !["platform"] = "settled"]
      /\ race' = [race EXCEPT !["platform"] = raced]
      /\ IF race["platform"] = "pending" /\ raced = "promise"
         THEN PrequalResume(plan["platform"].value)
         ELSE UNCHANGED prequal
      /\ UNCHANGED <<service, memStore, peer, env, application, plan, pc, step, loc, calls, timer,
                     lateValue, decision>>

\* The timer fires while the platform call is pending.
PrequalTimerFires ==
  LET raced == withTimeout(race["platform"], "timeout")
  IN  /\ prequal.pc = "await"
      /\ plan["platform"].kind \in {"slow", "never"}
      /\ callState["platform"] = "pending"
      /\ timer["platform"].state = "armed"
      /\ timer' = [timer EXCEPT !["platform"].state = "fired_first"]
      /\ race' = [race EXCEPT !["platform"] = raced]
      /\ IF race["platform"] = "pending" /\ raced = "timeout"
         THEN PrequalResume(Undefined)
         ELSE UNCHANGED prequal
      /\ UNCHANGED <<service, memStore, peer, env, application, plan, pc, step, loc, calls, callState,
                     lateValue, decision>>

PrequalNext ==
  \/ PrequalInvoke
  \/ PrequalCallSettles
  \/ PrequalTimerFires
  \/ SlowCallSettles
  \/ StaleTimerFires

\* The continuation runs once the call has settled or the timer has fired;
\* a call that answers in time does answer, and the timer fires.
SpecPrequal ==
  /\ PrequalInit
  /\ [][PrequalNext]_vars
  /\ WF_vars(PrequalInvoke)
  /\ WF_vars(PrequalCallSettles)
  /\ WF_vars(PrequalTimerFires)

\* C18: runPrequalification never throws and returns: base_amount is the
\* platform's pre-approved amount when the call returned one in time (an
\* amount of 0 counts as none), else 50000; each offer is a multiple of
\* 1000 nearest to the base times 1.2, 1.4 and 2.0; the timer is 5000 ms.
C18_PrequalAlwaysReturns ==
  /\ [](/\ prequal.pc # "thrown"
        /\ timer["platform"].state # "none" => timer["platform"].ms = 5000
        /\ prequal.pc = "returned" =>
             LET answer == plan["platform"]
                 amount == IF answer.kind = "returns"
                           THEN answer.value[1].pre_approved_amount ELSE Undefined
                 base   == IF amount # Undefined /\ amount[1] # 0 THEN amount[1] ELSE 50000
                 result == prequal.result[1]
                 near(offer, tenths) ==
                   /\ offer % 1000 = 0
                   /\ 10 * offer - base * tenths <= 5000
                   /\ base * tenths - 10 * offer <= 5000
             IN  /\ DOMAIN result = {"base_amount", "bureau_offer", "social_offer", "fiscal_offer"}
                 /\ result.base_amount = base
                 /\ near(result.bureau_offer, 12)
                 /\ near(result.social_offer, 14)
                 /\ near(result.fiscal_offer, 20))
  /\ <>(prequal.pc = "returned")

\* A prequalification that fell back to the default after a timeout, with
\* the platform's answer (another amount) arriving afterwards.
C18_Witness ==
  /\ prequal.pc = "returned"
  /\ prequal.result[1] = [base_amount |-> 50000, bureau_offer |-> 60000,
                          social_offer |-> 70000, fiscal_offer |-> 100000]
  /\ timer["platform"].state = "fired_first"
  /\ lateValue["platform"] = Some(PlatformResult(Some(900000), Some(36), Some(74000)))

(***************************************************************************)
(* Two submissions at once (application.service submitApplication): the    *)
(* run followed so far, for application "a1", and a second submission for  *)
(* application "a2".  Each run has its own locals; the only module-level   *)
(* state the two share is memStore.  The second run is followed section by *)
(* section: a section, from its guard to the end of its try/catch, touches *)
(* nothing but the locals of its own invocation.                           *)
(***************************************************************************)
MainId == "a1"

PeerId == "a2"

\* The document createApplication stores.
NewDoc(merchantId) ==
  [ merchant_id |-> merchantId, form_data |-> Undefined,
    decision_status |-> "UNDERWRITING_PENDING", decision |-> Undefined,
    consent_data |-> Undefined, kyc_status |-> Undefined, kyc_data |-> Undefined ]

\* Variant: every document is stored under one key.
DocKeyShared(id) == MainId

\* memStore.get(id) / memStore.set(id, updated): the key of a document.
DocKey(id) == id

\* { ...application, form_data: formData }
Snapshot(doc, form) == [doc EXCEPT !.form_data = form]

\* Variant: the payload is written and the status is left as read.
UpdatedPayloadOnly(app, d) == [app EXCEPT !.decision = Some(d)]

\* `updated`: the snapshot with the decision's status, payload and results.
Updated(app, d) == [app EXCEPT !.decision_status = d.status, !.decision = Some(d)]

\* What the section of source s met in a run: no call, a result in time,
\* or a rejection (of the call or of the timeout promise).
Skipped == [kind |-> "skipped", value |-> Undefined]

Unanswered == [kind |-> "failed", value |-> Undefined]

OutcomeOf(s, app, e, p) ==
  IF ~ShouldCall(s, app, e) THEN Skipped
  ELSE IF p[s].kind = "returns" THEN [kind |-> "result", value |-> p[s].value]
  ELSE Unanswered

\* The locals after the section of source s met outcome o.
SectionEffect(s, o, l) ==
  CASE o.kind = "skipped" -> OnSkip(s, l)
    [] o.kind = "result"  -> OnResult(s, o.value[1], l)
    [] o.kind = "failed"  -> IF HasCatch(s) THEN OnError(s, l) ELSE l

\* The locals after the first k sections, given one outcome per source.
RECURSIVE LocalsAfter(_, _)
LocalsAfter(k, outcomes) ==
  IF k = 0 THEN InitialLocals
  ELSE SectionEffect(Sources[k], outcomes[Sources[k]], LocalsAfter(k - 1, outcomes))

PairForms ==
  { Undefined,
    Some(FormData("https://maps.google.com/?cid=1", "fb-token", "", "+525512345678")) }

PairPlans ==
  { AllUp, AllDown,
    [AllUp EXCEPT !["syntage"] = Slow(DemoStub("syntage"))],
    [AllUp EXCEPT !["bureau"] = Throws] }

PairEnvs == {e \in Envs : e.APPROVAL_THRESHOLD = 50000}

PairInit ==
  /\ env \in PairEnvs
  /\ memStore = [id \in {MainId, PeerId} |-> NewDoc("m1")]
  /\ application \in [merchant_id : {""}, form_data : PairForms]
  /\ plan \in PairPlans
  /\ pc = "submitted"
  /\ step = 1
  /\ loc = InitialLocals
  /\ calls = <<>>
  /\ callState = [s \in SourceSet |-> "none"]
  /\ timer = [s \in SourceSet |-> NoTimer]
  /\ race = [s \in SourceSet |-> "none"]
  /\ lateValue = [s \in SourceSet |-> Undefined]
  /\ decision = Undefined
  /\ service = NoService
  /\ prequal = NoPrequal
  /\ peer \in [ pc : {"submitted"}, application : [merchant_id : {""}, form_data : PairForms],
                plan : {AllUp, AllDown}, step : {1}, loc : {InitialLocals},
                decision : {Undefined} ]

\* submitApplication up to the call of runUnderwriting: the document is
\* read and the snapshot built from it and the submitted form.
Submit ==
  /\ pc = "submitted"
  /\ DocKey(MainId) \in DOMAIN memStore
  /\ application' = Snapshot(memStore[DocKey(MainId)], application.form_data)
  /\ pc' = "enter"
  /\ UNCHANGED <<service, memStore, peer, prequal, env, plan, step, loc, calls, callState, timer, race,
                 lateValue, decision>>

\* submitApplication after the await: memStore.set(id, updated).
StoreDecision ==
  /\ pc = "returned"
  /\ memStore' = [memStore EXCEPT ![DocKey(MainId)] = Updated(application, decision[1])]
  /\ pc' = "stored"
  /\ UNCHANGED <<service, peer, prequal, env, application, plan, step, loc, calls, callState, timer, race,
                 lateValue, decision>>

PeerUnchanged ==
  UNCHANGED <<service, prequal, env, application, plan, pc, step, loc, calls, callState, timer, race,
              lateValue, decision>>

PeerSubmit ==
  /\ peer.pc = "submitted"
  /\ DocKey(PeerId) \in DOMAIN memStore
  /\ peer' = [peer EXCEPT !.pc = "sections",
                          !.application = Snapshot(memStore[DocKey(PeerId)], peer.application.form_data)]
  /\ UNCHANGED memStore
  /\ PeerUnchanged

\* One section of the second run, from its guard to the end of its
\* try/catch.
PeerSection ==
  LET s == Sources[peer.step]
      o == OutcomeOf(s, peer.application, env, peer.plan)
  IN  /\ peer.pc = "sections"
      /\ peer' = [peer EXCEPT
                    !.loc  = SectionEffect(s, o, peer.loc),
                    !.pc   = IF o.kind = "failed" /\ ~HasCatch(s) THEN "thrown"
                             ELSE IF peer.step = Len(Sources) THEN "consolidate"
                             ELSE "sections",
                    !.step = IF peer.step = Len(Sources) \/ (o.kind = "failed" /\ ~HasCatch(s))
                             THEN peer.step ELSE peer.step + 1]
      /\ UNCHANGED memStore
      /\ PeerUnchanged

PeerConsolidate ==
  /\ peer.pc = "consolidate"
  /\ peer' = [peer EXCEPT !.pc = "returned", !.decision = Some(Decide(peer.loc, env))]
  /\ UNCHANGED memStore
  /\ PeerUnchanged

PeerStoreDecision ==
  /\ peer.pc = "returned"
  /\ memStore' = [memStore EXCEPT ![DocKey(PeerId)] = Updated(peer.application, peer.decision[1])]
  /\ peer' = [peer EXCEPT !.pc = "stored"]
  /\ PeerUnchanged

PairNext ==
  \/ Submit
  \/ Skip
  \/ Invoke
  \/ AdapterReturns
  \/ AdapterThrows
  \/ TimerFiresFirst
  \/ SlowCallSettles
  \/ Consolidate
  \/ StoreDecision
  \/ PeerSubmit
  \/ PeerSection
  \/ PeerConsolidate
  \/ PeerStoreDecision

\* Timers that fire after their call has settled change nothing a run
\* reads (StaleTimerFires) and are left out here.
SpecPair == PairInit /\ [][PairNext]_vars

\* The four fields of a decision the claim is about.
DecisionFields(d) ==
  <<d.status, d.payload.total_revenue, d.payload.data_sources, d.payload.credit_offer>>

OutcomesOf(app, e, p) == [s \in SourceSet |-> OutcomeOf(s, app, e, p)]

\* The decision computed from seven outcomes and the threshold alone.
DecisionFrom(outcomes, threshold) ==
  Decide(LocalsAfter(Len(Sources), outcomes), [APPROVAL_THRESHOLD |-> threshold])

\* C13: the status, total revenue, data_sources and credit offer of a run
\* are a function of its own seven source outcomes and the threshold, however
\* the steps of a run for another application are interleaved with it; two
\* runs with the same outcomes decide the same; a step of one run leaves the
\* other run's locals, decision and stored document unchanged, and each
\* stored document holds the decision of its own run.
C13_RunsAreIndependent ==
  /\ [](/\ decision # Undefined =>
             DecisionFields(decision[1]) =
               DecisionFields(DecisionFrom(OutcomesOf(application, env, plan),
                                           env.APPROVAL_THRESHOLD))
        /\ peer.decision # Undefined =>
             DecisionFields(peer.decision[1]) =
               DecisionFields(DecisionFrom(OutcomesOf(peer.application, env, peer.plan),
                                           env.APPROVAL_THRESHOLD))
        /\ ( /\ decision # Undefined
             /\ peer.decision # Undefined
             /\ OutcomesOf(application, env, plan) = OutcomesOf(peer.application, env, peer.plan) )
           => DecisionFields(decision[1]) = DecisionFields(peer.decision[1])
        /\ pc = "stored" => memStore[MainId] = Updated(application, decision[1])
        /\ pc # "stored" => memStore[MainId] = NewDoc("m1")
        /\ peer.pc = "stored" => memStore[PeerId] = Updated(peer.application, peer.decision[1])
        /\ peer.pc # "stored" => memStore[PeerId] = NewDoc("m1"))
  /\ [][/\ peer' # peer =>
             /\ UNCHANGED <<application, pc, step, loc, calls, callState, timer, race, lateValue,
                            decision>>
             /\ memStore'[MainId] = memStore[MainId]
        /\ <<application, pc, step, loc, calls, callState, timer, race, lateValue, decision>>'
             # <<application, pc, step, loc, calls, callState, timer, race, lateValue, decision>>
           => /\ peer' = peer
              /\ memStore'[PeerId] = memStore[PeerId]]_vars

\* The second run has stored its decision while the first, with the same
\* outcomes until its tax source timed out, is still suspended; both then
\* hold different decisions under their own ids.
C13_Witness ==
  /\ pc = "stored"
  /\ peer.pc = "stored"
  /\ plan = [AllUp EXCEPT !["syntage"] = Slow(DemoStub("syntage"))]
  /\ peer.plan = AllUp
  /\ application = peer.application
  /\ memStore[MainId].decision # memStore[PeerId].decision
  /\ DecisionFields(memStore[PeerId].decision[1]) = DecisionFields(peer.decision[1])
  /\ "syntage" \notin {decision[1].payload.data_sources[i] :
                         i \in 1 .. Len(decision[1].payload.data_sources)}

(***************************************************************************)
(* computeTotalRevenue as a function of its inputs: the run is placed at   *)
(* the end of section 8 with the locals that the results drawn here leave, *)
(* the absent social and phone data included, and sections 9 to 11 are     *)
(* applied to them.                                                        *)
(***************************************************************************)
FormulaCounts == {Undefined, Some(999), Some(1000), Some(5000)}

\* A section left with its optional source absent or with result r.
WithOptional(s, r, l) == IF r = Undefined THEN OnError(s, l) ELSE OnResult(s, r[1], l)

FormulaInit ==
  /\ env \in Envs
  /\ application = [merchant_id |-> "m1", form_data |-> Undefined]
  /\ plan = AllUp
  /\ pc = "consolidate"
  /\ step = Len(Sources)
  /\ \E score \in {0, 72, 90},
        fans \in FormulaCounts,
        followers \in FormulaCounts,
        phone \in {Undefined, Some(TwilioResult(TRUE, Some(TRUE), Some(TRUE), Some(FALSE))),
                   Some(TwilioResult(TRUE, Some(FALSE), Undefined, Some(FALSE)))},
        bureau \in {Undefined, Some(720)},
        tenure \in {Some(36), Some(12)} :
       loc = OnResult("platform", PlatformResult(Some(900000), tenure, Some(50000)),
             OnResult("bureau", BureauResult(bureau),
             WithOptional("twilio", phone,
             WithOptional("instagram",
                          IF followers = Undefined THEN Undefined
                          ELSE Some(InstagramResult(TRUE, followers)),
             WithOptional("facebook",
                          IF fans = Undefined THEN Undefined
                          ELSE Some(FacebookResult(TRUE, fans)),
             OnResult("google_places", PlacesResult(TRUE, Some(score)),
             OnResult("syntage", DemoStub("syntage"), InitialLocals)))))))
  /\ calls = <<>>
  /\ callState = [s \in SourceSet |-> "none"]
  /\ timer = [s \in SourceSet |-> NoTimer]
  /\ race = [s \in SourceSet |-> "none"]
  /\ lateValue = [s \in SourceSet |-> Undefined]
  /\ decision = Undefined
  /\ service = NoService
  /\ memStore = NoStore /\ peer = NoPeer /\ prequal = NoPrequal

SpecFormula == FormulaInit /\ [][Consolidate]_vars

\* The locals of the scenario: monthly base 60000, listings score 72,
\* bureau score 720, tenure 36 months, compliant, no social or phone data.
IsScenario(l) ==
  /\ l.syntageMonthlyRevenue = [n |-> 720000, d |-> 12]
  /\ l.placesScore = 72
  /\ l.bureauScore = Some(720)
  /\ l.tenureMonths = Some(36)
  /\ l.syntageCompliance
  /\ l.facebookFanCount = Undefined /\ l.instagramFollowers = Undefined
  /\ l.twilioIdentityMatch = Undefined /\ l.twilioWhatsapp = Undefined
  /\ l.twilioSimSwap = Undefined

\* C22: in the scenario (base 60000, listings 72, bureau 720, tenure 36,
\* compliant, no social or phone data) the factors are 1.144, 1.10, 1.05
\* and 1.0, the total revenue is 79279, and with threshold 50000 the status
\* is APPROVED.
C22_Scenario ==
  (decision # Undefined /\ IsScenario(loc)) =>
    /\ PlacesBoost(loc.placesScore) = <<1144, 1000>>
    /\ BureauMultiplier(loc.bureauScore) = <<110, 100>>
    /\ TenureMultiplier(loc.tenureMonths) = <<105, 100>>
    /\ ComplianceMultiplier(loc.syntageCompliance) = <<100, 100>>
    /\ decision[1].payload.total_revenue = 79279
    /\ env.APPROVAL_THRESHOLD = 50000 => decision[1].status = "APPROVED"

C22_Witness ==
  /\ decision # Undefined
  /\ IsScenario(loc)
  /\ env.APPROVAL_THRESHOLD = 50000
  /\ decision[1].status = "APPROVED"
  /\ decision[1].payload.total_revenue = 79279

\* C27: the product of the listings, social, identity-match and
\* WhatsApp-business factors of a run is at most 1.35.
C27_DigitalBoostAtMost35 ==
  decision # Undefined =>
    PlacesBoost(loc.placesScore)[1]
      * SocialBoost(loc.facebookFanCount, loc.instagramFollowers)[1]
      * IdentityBoost(loc.twilioIdentityMatch)[1]
      * WhatsappBoost(loc.twilioWhatsapp)[1]
    <= 1350000000

(***************************************************************************)
(* Properties of the boosts, checked on runs with the adapters' own code   *)
(***************************************************************************)
\* C24: the social factor of a run is 1 + boostA + boostB, where a
\* connected Facebook page adds 0.08 at >= 5000 followers, 0.05 at >= 1000
\* and 0.02 in every other connected case, a connected Instagram profile
\* 0.07 / 0.04 / 0.01, and a platform that is not connected adds 0.
C24_SocialTiers ==
  decision # Undefined =>
    LET tier(connected, count, high, mid, low) ==
          IF ~connected THEN 0
          ELSE IF count # Undefined /\ count[1] >= 5000 THEN high
          ELSE IF count # Undefined /\ count[1] >= 1000 THEN mid
          ELSE low
    IN  SocialBoost(loc.facebookFanCount, loc.instagramFollowers)
          = << 100 + tier(loc.facebookAvailable, loc.facebookFanCount, 8, 5, 2)
                   + tier(loc.instagramAvailable, loc.instagramFollowers, 7, 4, 1),
               100 >>

\* C25: for every Place Details answer that gives a connected listing
\* result, the score the adapter returned for it is min(sum, 100) of: rating
\* 25 / 20 / 12 at >= 4.5 / 4.0 / 3.5 and 5 in every other case; reviews
\* 20 / 15 / 10 / 5 at >= 200 / 100 / 50 / 10 and 0 below; 10 each for
\* verified, website, OPERATIONAL and a commercial category; 5 for a price
\* tier >= 3.
C25_SignalsScoreTable ==
  ( /\ ~UsesStub(env, "GOOGLE_PLACES_API_KEY")
    /\ callState["google_places"] = "pending"
    /\ plan["google_places"].kind = "returns"
    /\ plan["google_places"].value[1].connected )
  => \A p \in PlaceDetails :
       LET data   == PlacesData(p)
           rating == IF p.rating # Undefined /\ p.rating[1] >= 45 THEN 25
                     ELSE IF p.rating # Undefined /\ p.rating[1] >= 40 THEN 20
                     ELSE IF p.rating # Undefined /\ p.rating[1] >= 35 THEN 12
                     ELSE 5
           count  == OrElse(p.user_ratings_total, 0)
           reviews == IF count >= 200 THEN 20 ELSE IF count >= 100 THEN 15
                      ELSE IF count >= 50 THEN 10 ELSE IF count >= 10 THEN 5 ELSE 0
           sum    == rating + reviews
                       + (IF data.is_verified THEN 10 ELSE 0)
                       + (IF data.has_website THEN 10 ELSE 0)
                       + (IF data.business_status = "OPERATIONAL" THEN 10 ELSE 0)
                       + (IF HasCommercialType(data.categories) = "yes" THEN 10 ELSE 0)
                       + (IF OrElse(p.price_level, 0) >= 3 THEN 5 ELSE 0)
       IN  ( /\ HasCommercialType(data.categories) # "throws"
             /\ plan["google_places"]
                  = Returns(PlaceDetailsResult(Body([result |-> Some(p)]))) )
           => plan["google_places"].value[1].signals_score
                = Some(IF sum <= 100 THEN sum ELSE 100)

C30_NoInputNoBoost ==
  ( /\ decision # Undefined
    /\ FormField(application, "google_business_url") = ""
    /\ FormField(application, "phone") = ""
    /\ FormField(application, "facebook_access_token") = ""
    /\ FormField(application, "instagram_access_token") = "" )
  => /\ \A i \in DOMAIN decision[1].payload.data_sources :
          decision[1].payload.data_sources[i]
            \notin {"google_places", "facebook", "instagram", "twilio"}
     /\ PlacesBoost(loc.placesScore) = <<1000, 1000>>
     /\ SocialBoost(loc.facebookFanCount, loc.instagramFollowers) = <<100, 100>>
     /\ IdentityBoost(loc.twilioIdentityMatch) = <<100, 100>>
     /\ WhatsappBoost(loc.twilioWhatsapp) = <<100, 100>>
     /\ SimSwapPenalty(loc.twilioSimSwap) = <<100, 100>>
     /\ ~HasSocial(loc)

(***************************************************************************)
(* Start-up: config/env.ts parses process.env when the module is loaded;   *)
(* a schema issue makes parse throw and the process does not start.        *)
(***************************************************************************)
\* The credential of each provider that has one.
CredentialOf(s) ==
  CASE s = "syntage"       -> "SYNTAGE_API_KEY"
    [] s = "google_places" -> "GOOGLE_PLACES_API_KEY"
    [] s = "facebook"      -> "FACEBOOK_APP_ID"
    [] s = "instagram"     -> "FACEBOOK_APP_ID"
    [] s = "twilio"        -> "TWILIO_ACCOUNT_SID"

\* The variables set in process.env: provider credentials and the project.
ProcessEnvs ==
  [ DEMO_MODE          : BOOLEAN,
    APPROVAL_THRESHOLD : {50000},
    SYNTAGE_TIMEOUT_MS : {3000},
    keys               : { {}, {"GCP_PROJECT_ID"},
                           {"GCP_PROJECT_ID", "GOOGLE_PLACES_API_KEY"},
                           {"GCP_PROJECT_ID", "SYNTAGE_API_KEY", "FACEBOOK_APP_ID",
                            "TWILIO_ACCOUNT_SID"},
                           ApiKeys \cup {"GCP_PROJECT_ID"} } ]

\* superRefine: outside demo mode the listing key and the project are
\* required.
SchemaIssues(e) ==
  IF e.DEMO_MODE THEN {}
  ELSE {"GOOGLE_PLACES_API_KEY", "GCP_PROJECT_ID"} \ e.keys

ConfigInit ==
  /\ env \in ProcessEnvs
  /\ application \in AdapterApplications
  /\ plan \in AdapterPlans
  /\ pc = "boot"
  /\ step = 1
  /\ loc = InitialLocals
  /\ calls = <<>>
  /\ callState = [s \in SourceSet |-> "none"]
  /\ timer = [s \in SourceSet |-> NoTimer]
  /\ race = [s \in SourceSet |-> "none"]
  /\ lateValue = [s \in SourceSet |-> Undefined]
  /\ decision = Undefined
  /\ service = NoService
  /\ memStore = NoStore /\ peer = NoPeer /\ prequal = NoPrequal

\* export const env = envSchema.parse(process.env)
LoadEnv ==
  /\ pc = "boot"
  /\ pc' = IF SchemaIssues(env) = {} THEN "enter" ELSE "exit"
  /\ UNCHANGED <<service, memStore, peer, prequal, env, application, plan, step, loc, calls, callState,
                 timer, race, lateValue, decision>>

ConfigNext ==
  \/ LoadEnv
  \/ AdapterNext

SpecConfig == ConfigInit /\ [][ConfigNext]_vars

\* C23: the system starts whatever provider credentials are missing, and an
\* adapter whose provider has no credentials answers with its stub.
C23_NoHardFailure ==
  /\ pc # "exit"
  /\ \A s \in {"syntage", "google_places", "facebook", "instagram", "twilio"} :
       ( /\ CredentialOf(s) \notin env.keys
         /\ callState[s] # "none"
         /\ plan[s].kind \notin {"running", "never"} )
       => plan[s] = Returns(DemoStub(s))

(***************************************************************************)
(* application.service: the calls on one stored application.  Every        *)
(* function but submitApplication runs from its memStore.get to its        *)
(* memStore.set without an await, so it is one step; submitApplication     *)
(* reads the document, awaits runUnderwriting, and writes afterwards.      *)
(* Timestamps (created_at, updated_at, consented_at, submitted_at) are     *)
(* left out of the documents.  A run is taken as a whole here: its         *)
(* decision is the one its outcomes give (DecisionFrom).                   *)
(***************************************************************************)
\* The id createApplication hands out, and the ids requests name.
AppIds == {"a1"}

RequestIds == AppIds \cup {"a2"}

\* The submitApplication calls that can overlap.
Slots == {1, 2}

\* What the k-th overlapping submission carries and what its run meets.
SlotForm(k) ==
  IF k = 1 THEN Some(FormData("https://maps.google.com/?cid=1", "fb-token", "", "+525512345678"))
  ELSE Some(FormData("", "", "ig-token", ""))

SlotPlans(k) ==
  IF k = 1 THEN {AllUp, [AllUp EXCEPT !["syntage"] = Returns(SyntageRevenueData(120000, Some(TRUE)))]}
  ELSE {AllDown, AllUp}

Idle == [pc |-> "idle"]

\* The last call that settled: its function, the id, and "ok" or the
\* statusCode of the operational error it threw.
Settled(op, id, result) == [op |-> op, id |-> id, result |-> result]

ServiceInit ==
  /\ env \in {e \in Envs : ~e.DEMO_MODE /\ e.APPROVAL_THRESHOLD = 50000}
  /\ application = [merchant_id |-> "m1", form_data |-> Undefined]
  /\ plan = AllUp
  /\ pc = "none"
  /\ step = 1
  /\ loc = InitialLocals
  /\ calls = <<>>
  /\ callState = [s \in SourceSet |-> "none"]
  /\ timer = [s \in SourceSet |-> NoTimer]
  /\ race = [s \in SourceSet |-> "none"]
  /\ lateValue = [s \in SourceSet |-> Undefined]
  /\ decision = Undefined
  /\ memStore = NoStore /\ peer = NoPeer /\ prequal = NoPrequal
  /\ service = [submits |-> [k \in Slots |-> Idle], last |-> Settled("none", "", "ok")]

ServiceUnchanged ==
  UNCHANGED <<peer, prequal, env, application, plan, pc, step, loc, calls, callState, timer,
              race, lateValue, decision>>

createApplication ==
  /\ \E id \in AppIds \ DOMAIN memStore :
       /\ memStore' = [i \in DOMAIN memStore \cup {id} |->
                         IF i = id THEN NewDoc("m1") ELSE memStore[i]]
       /\ service' = [service EXCEPT !.last = Settled("createApplication", id, "ok")]
  /\ ServiceUnchanged

\* The decision of the run a submission in flight is awaiting.
RunDecision(sub) ==
  DecisionFrom(OutcomesOf(sub.application, env, sub.plan), env.APPROVAL_THRESHOLD)

\* submitApplication up to its await.
SubmitBegins(k, id) ==
  /\ service.submits[k].pc = "idle"
  /\ IF DocKey(id) \notin DOMAIN memStore
     THEN service' = [service EXCEPT !.last = Settled("submitApplication", id, "404")]
     ELSE \E p \in SlotPlans(k) :
            service' = [service EXCEPT !.submits[k] =
                          [ pc |-> "running", id |-> id, plan |-> p,
                            application |-> Snapshot(memStore[DocKey(id)], SlotForm(k)) ]]
  /\ UNCHANGED memStore
  /\ ServiceUnchanged

\* submitApplication after its await.
SubmitCompletes(k) ==
  LET sub == service.submits[k]
  IN  /\ sub.pc = "running"
      /\ memStore' = [memStore EXCEPT ![DocKey(sub.id)] = Updated(sub.application, RunDecision(sub))]
      /\ service' = [service EXCEPT !.submits[k] = Idle,
                                    !.last = Settled("submitApplication", sub.id, "ok")]
      /\ ServiceUnchanged

updateConsent(id) ==
  /\ IF DocKey(id) \notin DOMAIN memStore
     THEN /\ service' = [service EXCEPT !.last = Settled("updateConsent", id, "404")]
          /\ UNCHANGED memStore
     ELSE /\ memStore' = [memStore EXCEPT ![DocKey(id)].consent_data = Some("consent")]
          /\ service' = [service EXCEPT !.last = Settled("updateConsent", id, "ok")]
  /\ ServiceUnchanged

\* decision_status !== "APPROVED" && decision_status !== "MANUAL_REVIEW"
\* throws; the others pass.
KycAllowed(status) == status \in {"APPROVED", "MANUAL_REVIEW"}

submitKyc(id) ==
  /\ IF DocKey(id) \notin DOMAIN memStore
     THEN /\ service' = [service EXCEPT !.last = Settled("submitKyc", id, "404")]
          /\ UNCHANGED memStore
     ELSE IF ~KycAllowed(memStore[DocKey(id)].decision_status)
     THEN /\ service' = [service EXCEPT !.last = Settled("submitKyc", id, "400")]
          /\ UNCHANGED memStore
     ELSE /\ memStore' = [memStore EXCEPT ![DocKey(id)].kyc_status = Some("SUBMITTED"),
                                          ![DocKey(id)].kyc_data = Some("kyc")]
          /\ service' = [service EXCEPT !.last = Settled("submitKyc", id, "ok")]
  /\ ServiceUnchanged

\* The controller looks the application up and the service calls
\* runPrequalification; the store is not written.
prequalify(id) ==
  /\ service' = [service EXCEPT !.last =
                   Settled("prequalify", id,
                           IF DocKey(id) \in DOMAIN memStore THEN "ok" ELSE "404")]
  /\ UNCHANGED memStore
  /\ ServiceUnchanged

ServiceNext ==
  \/ createApplication
  \/ \E k \in Slots, id \in RequestIds : SubmitBegins(k, id)
  \/ \E k \in Slots : SubmitCompletes(k)
  \/ \E id \in RequestIds : updateConsent(id)
  \/ \E id \in RequestIds : submitKyc(id)
  \/ \E id \in RequestIds : prequalify(id)

SpecService == ServiceInit /\ [][ServiceNext]_vars

FinalStatuses == {"APPROVED", "MANUAL_REVIEW", "REJECTED"}

\* C21: an application enters the store with status UNDERWRITING_PENDING;
\* its status changes only in the step that completes a submission, and
\* then to APPROVED, MANUAL_REVIEW or REJECTED; once it has left
\* UNDERWRITING_PENDING it never returns to it; the step that completes a
\* submission writes the status and the payload of that submission's run.
C21_StatusLifecycle ==
  /\ [](\A id \in DOMAIN memStore :
          /\ memStore[id].decision_status \in FinalStatuses \cup {"UNDERWRITING_PENDING"}
          /\ memStore[id].decision_status = "UNDERWRITING_PENDING"
               <=> memStore[id].decision = Undefined)
  /\ [][\A id \in DOMAIN memStore' :
          IF id \notin DOMAIN memStore
          THEN memStore'[id].decision_status = "UNDERWRITING_PENDING"
          ELSE /\ memStore[id].decision_status # "UNDERWRITING_PENDING"
                    => memStore'[id].decision_status # "UNDERWRITING_PENDING"
               /\ memStore'[id].decision_status # memStore[id].decision_status
                    => /\ memStore'[id].decision_status \in FinalStatuses
                       /\ \E k \in Slots : /\ service.submits[k].pc = "running"
                                           /\ service.submits[k].id = id
                                           /\ service'.submits[k].pc = "idle"
               /\ \A k \in Slots :
                    ( /\ service.submits[k].pc = "running"
                      /\ service.submits[k].id = id
                      /\ service'.submits[k].pc = "idle" )
                    => /\ memStore'[id].decision_status = RunDecision(service.submits[k]).status
                       /\ memStore'[id].decision = Some(RunDecision(service.submits[k]))]_vars

\* An application whose KYC was accepted (so it stood at APPROVED or
\* MANUAL_REVIEW) and which a later submission has left REJECTED.
C21_Witness ==
  /\ "a1" \in DOMAIN memStore
  /\ memStore["a1"].kyc_status = Some("SUBMITTED")
  /\ memStore["a1"].decision_status = "REJECTED"
  /\ memStore["a1"].decision[1].payload.total_revenue = 0
  /\ memStore["a1"].form_data = SlotForm(2)
  /\ service.last = Settled("submitApplication", "a1", "ok")

\* C28: submitKyc on an application whose status is not APPROVED settles
\* with a 400 error and leaves the store unchanged; on an APPROVED one it
\* sets kyc_status to SUBMITTED.
C28_KycOnlyWhenApproved ==
  [][\A id \in DOMAIN memStore :
       submitKyc(id) =>
         IF memStore[id].decision_status = "APPROVED"
         THEN /\ memStore'[id].kyc_status = Some("SUBMITTED")
              /\ service'.last = Settled("submitKyc", id, "ok")
         ELSE /\ memStore' = memStore
              /\ service'.last = Settled("submitKyc", id, "400")]_vars

\* C29: the step that completes a submission keeps the consent and the KYC
\* data the stored record holds, and writes status, payload and form_data
\* of one and the same run.
C29_NoLostUpdate ==
  [][\A k \in Slots :
       ( /\ service.submits[k].pc = "running"
         /\ service'.submits[k].pc = "idle" )
       => LET id  == service.submits[k].id
              run == service.submits[k]
          IN  /\ memStore'[id].consent_data = memStore[id].consent_data
              /\ memStore'[id].kyc_status = memStore[id].kyc_status
              /\ memStore'[id].kyc_data = memStore[id].kyc_data
              /\ memStore'[id].decision_status = RunDecision(run).status
              /\ memStore'[id].decision = Some(RunDecision(run))
              /\ memStore'[id].form_data = run.application.form_data]_vars

====
